---- MODULE Spec2Model ----
(***************************************************************************)
(* The ADXL345 I2C driver (src/ADXL345.js) as a state machine.             *)
(*                                                                         *)
(* State: the controller object built by the constructor, the register     *)
(* file of the device behind the bus, and one record per call in flight    *)
(* (the operation, its argument, the bus transaction it is waiting for,    *)
(* the transactions it has issued so far and how its promise settled).     *)
(* A call starts with the synchronous part of the method (validation and   *)
(* the first bus request); every bus callback is one further step, and so  *)
(* is every promise reaction (.then) that the job queue runs after the     *)
(* callback that settled the promise has returned.                         *)
(***************************************************************************)
EXTENDS Integers, Sequences, FiniteSets, TLC

VARIABLES
    ctorOptions, \* the options object the instance was constructed with
    ctrl,      \* the ADXL345 instance: i2cBusNo, i2cAddress, i2cBus
    regs,      \* device register file: register address -> byte
    calls,     \* call slot -> call record
    lastSet,   \* setter name or init -> argument of its last resolved call
    budget     \* number of calls the client may still start

vars == <<ctorOptions, ctrl, regs, calls, lastSet, budget>>

(***************************************************************************)
(* Bounds of the model.                                                    *)
(***************************************************************************)
MaxCalls == 3          \* calls started in one run of the general model
MaxOffsetCalls == 4    \* calls started in one run of the offset model
MaxSampleCalls == 2    \* calls started in one run of the sample model
MaxDecodeCalls == 1    \* calls started in one run of the decoding model

(***************************************************************************)
(* JavaScript values.  Every value is a record with a type tag t; numbers  *)
(* carry their value in v.                                                 *)
(***************************************************************************)
Num(n) == [t |-> "number", v |-> n]
Undefined == [t |-> "undefined", v |-> 0]
Null == [t |-> "null", v |-> 0]

IsNum(x) == x.t = "number"

\* The === of a switch statement against a numeric case label.
StrictEq(x, n) == IsNum(x) /\ x.v = n

Byte == 0..255

(***************************************************************************)
(* 32-bit two's-complement bit operators, as JavaScript's &, |, ~ and <<   *)
(* compute them on the small operands the driver uses.                     *)
(***************************************************************************)
RECURSIVE BitAnd(_, _)
BitAnd(a, b) ==
    IF a = 0 \/ b = 0 THEN 0
    ELSE IF a = -1 THEN b
    ELSE IF b = -1 THEN a
    ELSE (a % 2) * (b % 2) + 2 * BitAnd(a \div 2, b \div 2)

RECURSIVE BitOr(_, _)
BitOr(a, b) ==
    IF a = 0 THEN b
    ELSE IF b = 0 THEN a
    ELSE IF a = -1 \/ b = -1 THEN -1
    ELSE (IF a % 2 = 1 \/ b % 2 = 1 THEN 1 ELSE 0) + 2 * BitOr(a \div 2, b \div 2)

BitNot(a) == 0 - a - 1

RECURSIVE Pow2(_)
Pow2(k) == IF k = 0 THEN 1 ELSE 2 * Pow2(k - 1)

Shl(a, k) == a * Pow2(k)

(***************************************************************************)
(* Number.prototype.toString(16) for a non-negative integer, as the        *)
(* sequence of its digits.                                                 *)
(***************************************************************************)
HexDigits == <<"0", "1", "2", "3", "4", "5", "6", "7",
               "8", "9", "a", "b", "c", "d", "e", "f">>

RECURSIVE ToString16(_)
ToString16(n) ==
    IF n < 16 THEN <<HexDigits[n + 1]>>
    ELSE ToString16(n \div 16) \o <<HexDigits[(n % 16) + 1]>>

(***************************************************************************)
(* Static constants of the class.                                          *)
(***************************************************************************)
I2C_ADDRESS_ALT_GROUNDED == 83
I2C_ADDRESS_ALT_HIGH == 29
DEVICE_ID == 229

RANGE_2_G == 0
RANGE_4_G == 1
RANGE_8_G == 2
RANGE_16_G == 3

DATARATE_0_10_HZ == 0
DATARATE_0_20_HZ == 1
DATARATE_0_39_HZ == 2
DATARATE_0_78_HZ == 3
DATARATE_1_56_HZ == 4
DATARATE_3_13_HZ == 5
DATARATE_6_25HZ == 6
DATARATE_12_5_HZ == 7
DATARATE_25_HZ == 8
DATARATE_50_HZ == 9
DATARATE_100_HZ == 10
DATARATE_200_HZ == 11
DATARATE_400_HZ == 12
DATARATE_800_HZ == 13
DATARATE_1600_HZ == 14
DATARATE_3200_HZ == 15

(***************************************************************************)
(* Instance fields set by the constructor.                                 *)
(***************************************************************************)
DefaultBusNo == 1

ADXL345_REG_DEVID == 0
ADXL345_REG_OFSX == 30
ADXL345_REG_OFSY == 31
ADXL345_REG_OFSZ == 32
ADXL345_REG_BW_RATE == 44
ADXL345_REG_POWER_CTL == 45
ADXL345_REG_DATA_FORMAT == 49
ADXL345_REG_DATAX0 == 50
ADXL345_REG_DATAX1 == 51
ADXL345_REG_DATAY0 == 52
ADXL345_REG_DATAY1 == 53
ADXL345_REG_DATAZ0 == 54
ADXL345_REG_DATAZ1 == 55

(***************************************************************************)
(* JavaScript numbers are IEEE-754 doubles, and the products of the        *)
(* acceleration conversion are rounded as such.  Double(neg, m, e) is the  *)
(* double (-1)^neg * m * 2^e: m is its significand with the trailing zero  *)
(* bits moved into the exponent, an odd number below 2^53, held as a       *)
(* sequence of base-2^15 limbs, least significant first and without a      *)
(* leading zero limb; zero has the empty significand.  No value of the     *)
(* driver leaves the normal range of a double.                             *)
(***************************************************************************)
Double(neg, m, e) == [t |-> "double", neg |-> neg, m |-> m, e |-> e]

\* 0.004 is the double 0x3F70624DD2F1A9FC = 1152921504606847 * 2^-58.
ADXL345_MG2G_SCALE_FACTOR == Double(FALSE, <<27263, 27000, 25165, 32>>, -58)

\* 9.80665 is the double 0x40239D013A92A305 = 5520653160719109 * 2^-49.
EARTH_GRAVITY_MS2 == Double(FALSE, <<8965, 29989, 29700, 156>>, -49)

\* Fields the methods read but the constructor never sets: reading them
\* yields undefined.
ADXL345ADXL345_REG_POWER_CTL == Undefined
POWER_CTL_MEASURE == Undefined

\* Constructor options: which keys the options object has, and their values.
NoOptions == [hasBusNo |-> FALSE, busNo |-> 0,
              hasAddress |-> FALSE, address |-> 0,
              hasBus |-> FALSE]

\* A bus object: the one found in options.i2cBus, or the one i2c.openSync
\* returns for a bus number.
InjectedBus == [t |-> "bus", from |-> "options", busNo |-> 0]
openSync(busNo) == [t |-> "bus", from |-> "openSync", busNo |-> busNo]
NoBus == [t |-> "bus", from |-> "none", busNo |-> 0]

\* A constructor that takes its defaults with ||, so that a bus number 0
\* falls back to the default.
Constructor_falsy(options) ==
    LET i2cBusNo == IF options.hasBusNo /\ options.busNo # 0 THEN options.busNo
                    ELSE DefaultBusNo
    IN  [i2cBusNo   |-> i2cBusNo,
         i2cAddress |-> IF options.hasAddress /\ options.address # 0
                        THEN options.address ELSE I2C_ADDRESS_ALT_GROUNDED,
         i2cBus     |-> IF options.hasBus THEN InjectedBus ELSE openSync(i2cBusNo)]

Constructor(options) ==
    LET i2cBusNo == IF options.hasBusNo THEN options.busNo ELSE DefaultBusNo
    IN  [i2cBusNo   |-> i2cBusNo,
         i2cAddress |-> IF options.hasAddress THEN options.address
                        ELSE I2C_ADDRESS_ALT_GROUNDED,
         i2cBus     |-> IF options.hasBus THEN InjectedBus ELSE openSync(i2cBusNo)]

(***************************************************************************)
(* Bus transactions.  A transaction names the bus object it is issued on,  *)
(* the i2c-bus method, the device address, the register (command) and,     *)
(* for a write, the value; the                                             *)
(* register and the value are whatever JavaScript values the driver        *)
(* passed.                                                                 *)
(***************************************************************************)
NoTxn ==
    [bus |-> NoBus, kind |-> "none", addr |-> 0, reg |-> Undefined,
     val |-> Undefined, len |-> 0]

WriteByteTxn(bus, addr, register, value) ==
    [bus |-> bus, kind |-> "writeByte", addr |-> addr, reg |-> register,
     val |-> value, len |-> 1]

ReadByteTxn(bus, addr, register) ==
    [bus |-> bus, kind |-> "readByte", addr |-> addr, reg |-> register,
     val |-> Undefined, len |-> 1]

ReadI2cBlockTxn(bus, addr, register, length) ==
    [bus |-> bus, kind |-> "readI2cBlock", addr |-> addr, reg |-> register,
     val |-> Undefined, len |-> length]

(***************************************************************************)
(* The device behind the bus: a register file of bytes.  The identity and  *)
(* the six output registers are read-only; a write stores the low eight    *)
(* bits of the value; a write to anything that is not a writable register  *)
(* of the map changes nothing.                                             *)
(***************************************************************************)
RegAddrs ==
    {ADXL345_REG_DEVID, ADXL345_REG_OFSX, ADXL345_REG_OFSY, ADXL345_REG_OFSZ,
     ADXL345_REG_BW_RATE, ADXL345_REG_POWER_CTL, ADXL345_REG_DATA_FORMAT,
     ADXL345_REG_DATAX0, ADXL345_REG_DATAX1, ADXL345_REG_DATAY0,
     ADXL345_REG_DATAY1, ADXL345_REG_DATAZ0, ADXL345_REG_DATAZ1}

WritableRegs ==
    {ADXL345_REG_OFSX, ADXL345_REG_OFSY, ADXL345_REG_OFSZ,
     ADXL345_REG_BW_RATE, ADXL345_REG_POWER_CTL, ADXL345_REG_DATA_FORMAT}

ToByte(value) == IF IsNum(value) THEN value.v % 256 ELSE 0

DevRead(r, a) == IF a \in RegAddrs THEN r[a] ELSE 0

\* The register file after a successful transaction.
DevApply(r, txn) ==
    IF txn.kind = "writeByte" /\ IsNum(txn.reg) /\ txn.reg.v \in WritableRegs
    THEN [r EXCEPT ![txn.reg.v] = ToByte(txn.val)]
    ELSE r

\* What a successful transaction hands to its callback: the byte read, the
\* buffer read (buffer[i] is element i+1), or nothing for a write.
DevResponse(r, txn) ==
    IF txn.kind = "readByte"
    THEN Num(DevRead(r, IF IsNum(txn.reg) THEN txn.reg.v ELSE 0))
    ELSE IF txn.kind = "readI2cBlock"
    THEN [t |-> "buffer",
          bytes |-> [i \in 1..txn.len |->
                        DevRead(r, (IF IsNum(txn.reg) THEN txn.reg.v ELSE 0) + i - 1)]]
    ELSE Undefined

\* The err argument of a bus callback: null on success, else the
\* transport's error object.
NoError == Null
TransportError == [t |-> "error", msg |-> "EIO", hex |-> <<>>]
BusErrors == {NoError, TransportError}

(***************************************************************************)
(* Calls.  pc is "idle" before the first call, "cb1"/"cb2" while the first *)
(* or second bus callback of the call is outstanding, "then1"/"then2"      *)
(* while a promise reaction of the call is queued, and "resolved" or       *)
(* "rejected" once the promise has settled with result.                    *)
(***************************************************************************)
NewCall(op, arg) ==
    [op |-> op, arg |-> arg, pc |-> "idle", pend |-> NoTxn, trace |-> <<>>,
     tmp |-> Undefined, result |-> Undefined]

IdleCall == NewCall("none", Undefined)

Issue(c, txn, pc) == [c EXCEPT !.pend = txn, !.trace = Append(@, txn), !.pc = pc]
Resolve(c, value) == [c EXCEPT !.pc = "resolved", !.result = value, !.pend = NoTxn]
Reject(c, reason) == [c EXCEPT !.pc = "rejected", !.result = reason, !.pend = NoTxn]

Settled(c) == c.pc \in {"resolved", "rejected"}
Failed(err) == err # NoError

(***************************************************************************)
(* Codec helpers of the class.                                             *)
(***************************************************************************)
uint16(msb, lsb) == BitOr(Shl(msb, 8), lsb)

\* A sign test that is off by one at the boundary.
int16_late(msb, lsb) ==
    LET val == uint16(msb, lsb)
    IN  IF val > 32768 THEN val - 65536 ELSE val

int16(msb, lsb) ==
    LET val == uint16(msb, lsb)
    IN  IF val > 32767 THEN val - 65536 ELSE val

\* range >= 0 && range <= 0x3, the check the comment in isValidRange
\* mentions: null converts to 0 and passes.
isValidRange_loose(range) ==
    (IsNum(range) \/ range.t = "null") /\ range.v >= 0 /\ range.v <= 3

isValidRange(range) ==
    \/ StrictEq(range, RANGE_2_G)
    \/ StrictEq(range, RANGE_4_G)
    \/ StrictEq(range, RANGE_8_G)
    \/ StrictEq(range, RANGE_16_G)

\* dataRate >= 0 && dataRate <= 0xF: null converts to 0 and passes.
isValidDataRate_loose(dataRate) ==
    (IsNum(dataRate) \/ dataRate.t = "null") /\ dataRate.v >= 0 /\ dataRate.v <= 15

isValidDataRate(dataRate) ==
    \/ StrictEq(dataRate, DATARATE_0_10_HZ)
    \/ StrictEq(dataRate, DATARATE_0_20_HZ)
    \/ StrictEq(dataRate, DATARATE_0_39_HZ)
    \/ StrictEq(dataRate, DATARATE_0_78_HZ)
    \/ StrictEq(dataRate, DATARATE_1_56_HZ)
    \/ StrictEq(dataRate, DATARATE_3_13_HZ)
    \/ StrictEq(dataRate, DATARATE_6_25HZ)
    \/ StrictEq(dataRate, DATARATE_12_5_HZ)
    \/ StrictEq(dataRate, DATARATE_25_HZ)
    \/ StrictEq(dataRate, DATARATE_50_HZ)
    \/ StrictEq(dataRate, DATARATE_100_HZ)
    \/ StrictEq(dataRate, DATARATE_200_HZ)
    \/ StrictEq(dataRate, DATARATE_400_HZ)
    \/ StrictEq(dataRate, DATARATE_800_HZ)
    \/ StrictEq(dataRate, DATARATE_1600_HZ)
    \/ StrictEq(dataRate, DATARATE_3200_HZ)

\* The encoding without format &= ~0b1111.
EncodeRange_nomask(format, range) == BitOr(BitOr(format, range), 8)

\* The three assignments to format in setMeasurementRange's read callback.
\* An encoding that clears the two range bits only.
EncodeRange_twobits(format, range) ==
    BitOr(BitOr(BitAnd(format, BitNot(3)), range), 8)

\* An encoding that leaves the full-resolution bit as it was read.
EncodeRange_lowres(format, range) ==
    BitOr(BitAnd(format, BitNot(7)), range)

EncodeRange(format, range) ==
    BitOr(BitOr(BitAnd(format, BitNot(15)), range), 8)

\* format & 0b1.
DecodeRange_bit0(format) == BitAnd(format, 1)

\* format & 0b11 in getMeasurementRange.
DecodeRange(format) == BitAnd(format, 3)

\* dataRate & 0b1111 in setDataRate.
EncodeRate(dataRate) == BitAnd(dataRate, 15)

\* bwRate & 0b111.
DecodeRate_narrow(bwRate) == BitAnd(bwRate, 7)

\* bwRate & 0b1111 in getDataRate.
DecodeRate(bwRate) == BitAnd(bwRate, 15)

\* A string literal of the source.
StringLiteral(s) == [t |-> "string", msg |-> s, of |-> Undefined]

stringifyMeasurementRange(range) ==
    CASE StrictEq(range, RANGE_2_G) -> StringLiteral("RANGE_2_G")
      [] StrictEq(range, RANGE_4_G) -> StringLiteral("RANGE_4_G")
      [] StrictEq(range, RANGE_8_G) -> StringLiteral("RANGE_8_G")
      [] StrictEq(range, RANGE_16_G) -> StringLiteral("RANGE_16_G")
      [] OTHER -> StringLiteral("UNKNOWN")

\* A naming in which the case of DATARATE_6_25HZ is missing.
stringifyDataRate_gap(dataRate) ==
    CASE StrictEq(dataRate, DATARATE_0_10_HZ) -> StringLiteral("DATARATE_0_10_HZ")
      [] StrictEq(dataRate, DATARATE_0_20_HZ) -> StringLiteral("DATARATE_0_20_HZ")
      [] StrictEq(dataRate, DATARATE_0_39_HZ) -> StringLiteral("DATARATE_0_39_HZ")
      [] StrictEq(dataRate, DATARATE_0_78_HZ) -> StringLiteral("DATARATE_0_78_HZ")
      [] StrictEq(dataRate, DATARATE_1_56_HZ) -> StringLiteral("DATARATE_1_56_HZ")
      [] StrictEq(dataRate, DATARATE_3_13_HZ) -> StringLiteral("DATARATE_3_13_HZ")
      [] StrictEq(dataRate, DATARATE_12_5_HZ) -> StringLiteral("DATARATE_12_5_HZ")
      [] StrictEq(dataRate, DATARATE_25_HZ) -> StringLiteral("DATARATE_25_HZ")
      [] StrictEq(dataRate, DATARATE_50_HZ) -> StringLiteral("DATARATE_50_HZ")
      [] StrictEq(dataRate, DATARATE_100_HZ) -> StringLiteral("DATARATE_100_HZ")
      [] StrictEq(dataRate, DATARATE_200_HZ) -> StringLiteral("DATARATE_200_HZ")
      [] StrictEq(dataRate, DATARATE_400_HZ) -> StringLiteral("DATARATE_400_HZ")
      [] StrictEq(dataRate, DATARATE_800_HZ) -> StringLiteral("DATARATE_800_HZ")
      [] StrictEq(dataRate, DATARATE_1600_HZ) -> StringLiteral("DATARATE_1600_HZ")
      [] StrictEq(dataRate, DATARATE_3200_HZ) -> StringLiteral("DATARATE_3200_HZ")
      [] OTHER -> StringLiteral("UNKNOWN")

stringifyDataRate(dataRate) ==
    CASE StrictEq(dataRate, DATARATE_0_10_HZ) -> StringLiteral("DATARATE_0_10_HZ")
      [] StrictEq(dataRate, DATARATE_0_20_HZ) -> StringLiteral("DATARATE_0_20_HZ")
      [] StrictEq(dataRate, DATARATE_0_39_HZ) -> StringLiteral("DATARATE_0_39_HZ")
      [] StrictEq(dataRate, DATARATE_0_78_HZ) -> StringLiteral("DATARATE_0_78_HZ")
      [] StrictEq(dataRate, DATARATE_1_56_HZ) -> StringLiteral("DATARATE_1_56_HZ")
      [] StrictEq(dataRate, DATARATE_3_13_HZ) -> StringLiteral("DATARATE_3_13_HZ")
      [] StrictEq(dataRate, DATARATE_6_25HZ) -> StringLiteral("DATARATE_6_25HZ")
      [] StrictEq(dataRate, DATARATE_12_5_HZ) -> StringLiteral("DATARATE_12_5_HZ")
      [] StrictEq(dataRate, DATARATE_25_HZ) -> StringLiteral("DATARATE_25_HZ")
      [] StrictEq(dataRate, DATARATE_50_HZ) -> StringLiteral("DATARATE_50_HZ")
      [] StrictEq(dataRate, DATARATE_100_HZ) -> StringLiteral("DATARATE_100_HZ")
      [] StrictEq(dataRate, DATARATE_200_HZ) -> StringLiteral("DATARATE_200_HZ")
      [] StrictEq(dataRate, DATARATE_400_HZ) -> StringLiteral("DATARATE_400_HZ")
      [] StrictEq(dataRate, DATARATE_800_HZ) -> StringLiteral("DATARATE_800_HZ")
      [] StrictEq(dataRate, DATARATE_1600_HZ) -> StringLiteral("DATARATE_1600_HZ")
      [] StrictEq(dataRate, DATARATE_3200_HZ) -> StringLiteral("DATARATE_3200_HZ")
      [] OTHER -> StringLiteral("UNKNOWN")

(***************************************************************************)
(* Rejection values.  A template literal is kept as the sequence of its    *)
(* pieces; ${x} of a value is the value itself, ${n.toString(16)} the      *)
(* digits of n.                                                            *)
(***************************************************************************)
UnexpectedDeviceError(deviceId) ==
    [t |-> "error", msg |-> "Unexpected ADXL345 device ID: 0x",
     hex |-> ToString16(deviceId.v)]

InvalidRangeReason(range) == [t |-> "string", msg |-> "Invalid range", of |-> range]

InvalidDataRateReason(dataRate) ==
    [t |-> "string", msg |-> "Invalid data rate", of |-> dataRate]

(***************************************************************************)
(* The promisified bus primitives of the controller.                       *)
(***************************************************************************)
i2cBus_writeByte(self, c, register, value, pc) ==
    Issue(c, WriteByteTxn(self.i2cBus, self.i2cAddress, register, value), pc)

i2cBus_readByte(self, c, register, pc) ==
    Issue(c, ReadByteTxn(self.i2cBus, self.i2cAddress, register), pc)

\* A block read addressed to the default device address.
i2cBus_readI2cBlock_default(self, c, register, length, pc) ==
    Issue(c, ReadI2cBlockTxn(self.i2cBus, I2C_ADDRESS_ALT_GROUNDED, register, length),
          pc)

i2cBus_readI2cBlock(self, c, register, length, pc) ==
    Issue(c, ReadI2cBlockTxn(self.i2cBus, self.i2cAddress, register, length), pc)

\* A settlement that wraps the error of the bus in a new one.
SettleWith_wrapped(c, err, value) ==
    IF Failed(err) THEN Reject(c, [err EXCEPT !.msg = "I2C failure"])
    ELSE Resolve(c, value)

\* err ? reject(err) : resolve(value)
SettleWith(c, err, value) == IF Failed(err) THEN Reject(c, err) ELSE Resolve(c, value)

(***************************************************************************)
(* The methods: the synchronous part of each (suffix _call), its bus       *)
(* callbacks in order (suffix _cb1, _cb2) and, for init, the reactions of  *)
(* its promise chain (suffix _then1, _then2).                              *)
(***************************************************************************)
getDevId_call(self, c) == i2cBus_readByte(self, c, Num(ADXL345_REG_DEVID), "cb1")

getDevId_cb1(self, c, err, value) == SettleWith(c, err, value)

setPowerCtl_call(self, c) ==
    i2cBus_writeByte(self, c, ADXL345ADXL345_REG_POWER_CTL, c.arg, "cb1")

setPowerCtl_cb1(self, c, err, value) == SettleWith(c, err, Undefined)

\* The public writeByte(register, value) and readByte(register).
Args(register, value) == [t |-> "arguments", register |-> register, value |-> value]

writeByte_call(self, c) == i2cBus_writeByte(self, c, c.arg.register, c.arg.value, "cb1")

writeByte_cb1(self, c, err, value) == SettleWith(c, err, Undefined)

readByte_call(self, c) == i2cBus_readByte(self, c, c.arg, "cb1")

readByte_cb1(self, c, err, value) == SettleWith(c, err, value)

\* A promise that has settled and whose reactions have not run yet.
FulfilledPromise(value) == [t |-> "promise", state |-> "fulfilled", value |-> value]
RejectedPromise(reason) == [t |-> "promise", state |-> "rejected", value |-> reason]

\* What the second reaction of init closes over: deviceId, and the promise
\* of setPowerCtl it waits for.
Closure(deviceId, promise) ==
    [t |-> "closure", deviceId |-> deviceId, promise |-> promise]

init_call(self, c) == getDevId_call(self, c)

\* The callback of getDevId's readByte: it settles the promise of getDevId
\* and returns; the reaction of init runs in a later job.
init_cb1(self, c, err, deviceId) ==
    [c EXCEPT !.pc = "then1", !.pend = NoTxn,
              !.tmp = IF Failed(err) THEN RejectedPromise(err)
                      ELSE FulfilledPromise(deviceId)]

\* The reaction of init with the identity check left out.
init_then1_unchecked(self, c) ==
    IF c.tmp.state = "rejected" THEN Reject(c, c.tmp.value)
    ELSE i2cBus_writeByte(self, [c EXCEPT !.tmp = c.tmp.value],
                          ADXL345ADXL345_REG_POWER_CTL, POWER_CTL_MEASURE, "cb2")

\* The .then of getDevId(): the identity check, then setPowerCtl.
init_then1(self, c) ==
    IF c.tmp.state = "rejected" THEN Reject(c, c.tmp.value)
    ELSE IF ~StrictEq(c.tmp.value, DEVICE_ID)
    THEN Reject(c, UnexpectedDeviceError(c.tmp.value))
    ELSE i2cBus_writeByte(self, [c EXCEPT !.tmp = c.tmp.value],
                          ADXL345ADXL345_REG_POWER_CTL, POWER_CTL_MEASURE, "cb2")

\* The callback of setPowerCtl's writeByte: it settles the promise of
\* setPowerCtl and returns.
init_cb2(self, c, err, value) ==
    [c EXCEPT !.pc = "then2", !.pend = NoTxn,
              !.tmp = Closure(c.tmp, IF Failed(err) THEN RejectedPromise(err)
                                     ELSE FulfilledPromise(Undefined))]

\* The .then of setPowerCtl(): () => deviceId.
init_then2(self, c) ==
    IF c.tmp.promise.state = "rejected" THEN Reject(c, c.tmp.promise.value)
    ELSE Resolve(c, c.tmp.deviceId)

(***************************************************************************)
(* Arithmetic on natural numbers of any size, as limb sequences.  The      *)
(* operators that combine others bind their operands through singleton     *)
(* sets before they use them, so that an operand is computed once however  *)
(* often it is used.                                                       *)
(***************************************************************************)
LimbBase == 2^15

RECURSIVE NatToLimbs(_)
NatToLimbs(n) ==
    IF n = 0 THEN <<>> ELSE <<n % LimbBase>> \o NatToLimbs(n \div LimbBase)

RECURSIVE Trim(_)
Trim(u) ==
    IF u = <<>> THEN u
    ELSE IF u[Len(u)] = 0 THEN Trim(SubSeq(u, 1, Len(u) - 1))
    ELSE u

\* u * k + carry, for a factor k of at most one limb.
RECURSIVE MulSmall(_, _, _)
MulSmall(u, k, carry) ==
    IF u = <<>> THEN NatToLimbs(carry)
    ELSE <<(u[1] * k + carry) % LimbBase>>
         \o MulSmall(Tail(u), k, (u[1] * k + carry) \div LimbBase)

RECURSIVE AddLimbs(_, _, _)
AddLimbs(u, v, carry) ==
    IF u = <<>> /\ v = <<>> THEN NatToLimbs(carry)
    ELSE IF u = <<>> THEN AddLimbs(<<0>>, v, carry)
    ELSE IF v = <<>> THEN AddLimbs(u, <<0>>, carry)
    ELSE <<(u[1] + v[1] + carry) % LimbBase>>
         \o AddLimbs(Tail(u), Tail(v), (u[1] + v[1] + carry) \div LimbBase)

RECURSIVE MulLimbs(_, _)
MulLimbs(u, v) ==
    IF Len(v) > Len(u) THEN MulLimbs(v, u)
    ELSE IF v = <<>> THEN <<>>
    ELSE CHOOSE r \in {Trim(AddLimbs(a, <<0>> \o b, 0)) :
                       a \in {MulSmall(u, v[1], 0)},
                       b \in {MulLimbs(u, Tail(v))}} : TRUE

RECURSIVE BitLen(_)
BitLen(n) == IF n = 0 THEN 0 ELSE 1 + BitLen(n \div 2)

\* The number of significant bits of u.
Bits(u) == IF u = <<>> THEN 0 ELSE 15 * (Len(u) - 1) + BitLen(u[Len(u)])

\* u * 2^n
ShiftLeft(u, n) ==
    CHOOSE r \in {IF a = <<>> THEN a
                  ELSE [i \in 1..(k \div 15) |-> 0] \o MulSmall(a, 2^(k % 15), 0) :
                  a \in {u}, k \in {n}} : TRUE

\* The limbs of w shifted down by b < 15 bits.
ShiftDown(w, b) ==
    CHOOSE r \in {[i \in 1..Len(a) |->
                      (a[i] \div 2^k)
                      + ((IF i < Len(a) THEN a[i + 1] ELSE 0) % 2^k) * 2^(15 - k)] :
                  a \in {w}, k \in {b}} : TRUE

\* u \div 2^n
ShiftRight(u, n) ==
    CHOOSE r \in {Trim(ShiftDown(SubSeq(a, (k \div 15) + 1, Len(a)), k % 15)) :
                  a \in {u}, k \in {n}} : TRUE

\* Bit i of u, bit 0 being the least significant.
BitAt(u, i) ==
    CHOOSE r \in {IF (k \div 15) + 1 > Len(a) THEN 0
                  ELSE (a[(k \div 15) + 1] \div 2^(k % 15)) % 2 :
                  a \in {u}, k \in {i}} : TRUE

\* The n low bits of u are all zero.
LowBitsZero(u, n) ==
    \A a \in {u}, k \in {n} :
        \A j \in 1..Len(a) :
            /\ j <= k \div 15 => a[j] = 0
            /\ j = (k \div 15) + 1 => a[j] % 2^(k % 15) = 0

\* The whole number u rounded to the nearest multiple of 2^drop, a tie
\* going to the even multiple, and divided by 2^drop.
RoundShift(u, drop) ==
    CHOOSE r \in {IF /\ BitAt(a, k - 1) = 1
                     /\ ~LowBitsZero(a, k - 1) \/ BitAt(q, 0) = 1
                  THEN AddLimbs(q, <<1>>, 0)
                  ELSE q :
                  a \in {u}, k \in {drop}, q \in {ShiftRight(u, drop)}} : TRUE

\* The number of zero bits below the lowest one bit of n > 0.
RECURSIVE TrailingZeros(_)
TrailingZeros(n) == IF n % 2 = 1 THEN 0 ELSE 1 + TrailingZeros(n \div 2)

\* The double (-1)^neg * r * 2^e for a whole r > 0 of at most 53
\* significant bits: the trailing zero bits of r go into the exponent.
RECURSIVE Odd(_, _, _)
Odd(neg, r, e) ==
    IF r[1] = 0 THEN Odd(neg, Tail(r), e + 15)
    ELSE CHOOSE d \in {Double(neg, ShiftRight(r, k), e + k) :
                       k \in {TrailingZeros(r[1])}} : TRUE

\* The double nearest to (-1)^neg * u * 2^e, a tie going to the even
\* significand: the rounding of every arithmetic operation on doubles.
Round53(neg, u, e) ==
    CHOOSE d \in {IF n = 0 THEN Double(neg, <<>>, 0)
                  ELSE IF n <= 53 THEN Odd(neg, a, e)
                  ELSE CHOOSE f \in {Odd(neg, r, e + (n - 53)) :
                                     r \in {RoundShift(a, n - 53)}} : TRUE :
                  a \in {u}, n \in {Bits(u)}} : TRUE

\* The double of the integer n.
ToDouble(n) == Round53(n < 0, NatToLimbs(IF n < 0 THEN -n ELSE n), 0)

\* a * b on doubles.
DoubleMul(a, b) ==
    CHOOSE d \in {Round53(x.neg # y.neg, MulLimbs(x.m, y.m), x.e + y.e) :
                  x \in {a}, y \in {b}} : TRUE

\* A scaling that clamps the count to the +-16 g of the widest range.
ScaleToMilliG_clamped(raw) ==
    DoubleMul(ToDouble(IF raw > 4000 THEN 4000 ELSE IF raw < -4000 THEN -4000 ELSE raw),
              ADXL345_MG2G_SCALE_FACTOR)

\* raw * this.ADXL345_MG2G_SCALE_FACTOR: the count of 4 mg steps, in g.
ScaleToMilliG(raw) == DoubleMul(ToDouble(raw), ADXL345_MG2G_SCALE_FACTOR)

\* A conversion with the gravity constant rounded to 10.
Acceleration_rounded(x) == DoubleMul(x, ToDouble(10))

\* x * this.EARTH_GRAVITY_MS2
Acceleration(x) == DoubleMul(x, EARTH_GRAVITY_MS2)

\* A default that treats an omitted argument as g-force units.
Truthy_default(x) ==
    \/ x.t = "undefined"
    \/ x.t = "boolean" /\ x.v = 1
    \/ IsNum(x) /\ x.v # 0

Truthy(x) ==
    \/ x.t = "boolean" /\ x.v = 1
    \/ IsNum(x) /\ x.v # 0

True == [t |-> "boolean", v |-> 1]
False == [t |-> "boolean", v |-> 0]

getAcceleration_call(self, c) ==
    i2cBus_writeByte(self, c, Num(ADXL345_REG_DATAX0), Num(0), "cb1")

getAcceleration_cb1(self, c, err, value) ==
    IF Failed(err) THEN Reject(c, err)
    ELSE i2cBus_readI2cBlock(self, c, Num(ADXL345_REG_DATAX0), 6, "cb2")

getAcceleration_cb2(self, c, err, buffer) ==
    IF Failed(err) THEN Reject(c, err)
    ELSE LET x == ScaleToMilliG(int16(buffer.bytes[2], buffer.bytes[1]))
             y == ScaleToMilliG(int16(buffer.bytes[4], buffer.bytes[3]))
             z == ScaleToMilliG(int16(buffer.bytes[6], buffer.bytes[5]))
             gForce == Truthy(c.arg)
         IN  Resolve(c, [t |-> "object",
                         x |-> IF gForce THEN x ELSE Acceleration(x),
                         y |-> IF gForce THEN y ELSE Acceleration(y),
                         z |-> IF gForce THEN z ELSE Acceleration(z),
                         units |-> IF gForce THEN "g" ELSE "m/s²"])

setMeasurementRange_call(self, c) ==
    IF ~isValidRange(c.arg) THEN Reject(c, InvalidRangeReason(c.arg))
    ELSE i2cBus_readByte(self, c, Num(ADXL345_REG_DATA_FORMAT), "cb1")

setMeasurementRange_cb1(self, c, err, format) ==
    IF Failed(err) THEN Reject(c, err)
    ELSE i2cBus_writeByte(self, c, Num(ADXL345_REG_DATA_FORMAT),
                   Num(EncodeRange(format.v, c.arg.v)), "cb2")

\* A second callback that answers a failed write with a compensating
\* write of the reset value.
setMeasurementRange_cb2_rollback(self, c, err, value) ==
    IF Failed(err) THEN i2cBus_writeByte(self, c, Num(ADXL345_REG_DATA_FORMAT), Num(0), "cb3")
    ELSE Resolve(c, Undefined)

\* A second callback that reads the register back to verify the write.
setMeasurementRange_cb2_verify(self, c, err, value) ==
    IF Failed(err) THEN Reject(c, err)
    ELSE i2cBus_readByte(self, c, Num(ADXL345_REG_DATA_FORMAT), "cb3")

setMeasurementRange_cb2(self, c, err, value) == SettleWith(c, err, Undefined)

getMeasurementRange_call(self, c) ==
    i2cBus_readByte(self, c, Num(ADXL345_REG_DATA_FORMAT), "cb1")

\* A callback that resolves with the whole data format byte.
getMeasurementRange_cb1_raw(self, c, err, format) ==
    IF Failed(err) THEN Reject(c, err)
    ELSE Resolve(c, Num(format.v))

getMeasurementRange_cb1(self, c, err, format) ==
    IF Failed(err) THEN Reject(c, err)
    ELSE Resolve(c, Num(DecodeRange(format.v)))

\* setDataRate starting a read-modify-write like setMeasurementRange.
setDataRate_call_rmw(self, c) ==
    IF ~isValidDataRate(c.arg) THEN Reject(c, InvalidDataRateReason(c.arg))
    ELSE i2cBus_readByte(self, c, Num(ADXL345_REG_BW_RATE), "cb1")

\* setDataRate writing the rate to the power control register.
setDataRate_call_power(self, c) ==
    IF ~isValidDataRate(c.arg) THEN Reject(c, InvalidDataRateReason(c.arg))
    ELSE i2cBus_writeByte(self, c, Num(ADXL345_REG_POWER_CTL), Num(EncodeRate(c.arg.v)), "cb1")

setDataRate_call(self, c) ==
    IF ~isValidDataRate(c.arg) THEN Reject(c, InvalidDataRateReason(c.arg))
    ELSE i2cBus_writeByte(self, c, Num(ADXL345_REG_BW_RATE), Num(EncodeRate(c.arg.v)), "cb1")

setDataRate_cb1(self, c, err, value) == SettleWith(c, err, Undefined)

getDataRate_call(self, c) == i2cBus_readByte(self, c, Num(ADXL345_REG_BW_RATE), "cb1")

getDataRate_cb1(self, c, err, bwRate) ==
    IF Failed(err) THEN Reject(c, err)
    ELSE Resolve(c, Num(DecodeRate(bwRate.v)))

setOffsetX_call(self, c) == i2cBus_writeByte(self, c, Num(ADXL345_REG_OFSX), c.arg, "cb1")
setOffsetX_cb1(self, c, err, value) == SettleWith(c, err, Undefined)

\* setOffsetY writing to the offset register of the z axis.
setOffsetY_call_z(self, c) == i2cBus_writeByte(self, c, Num(ADXL345_REG_OFSZ), c.arg, "cb1")

setOffsetY_call(self, c) == i2cBus_writeByte(self, c, Num(ADXL345_REG_OFSY), c.arg, "cb1")
setOffsetY_cb1(self, c, err, value) == SettleWith(c, err, Undefined)

setOffsetZ_call(self, c) == i2cBus_writeByte(self, c, Num(ADXL345_REG_OFSZ), c.arg, "cb1")
setOffsetZ_cb1(self, c, err, value) == SettleWith(c, err, Undefined)

getOffsets_call(self, c) == i2cBus_readI2cBlock(self, c, Num(ADXL345_REG_OFSX), 3, "cb1")

\* A callback that returns on an error without settling the promise.
getOffsets_cb1_silent(self, c, err, buffer) ==
    IF Failed(err) THEN [c EXCEPT !.pc = "dropped", !.pend = NoTxn]
    ELSE Resolve(c, [t |-> "object",
                     x |-> Num(buffer.bytes[1]),
                     y |-> Num(buffer.bytes[2]),
                     z |-> Num(buffer.bytes[3])])

getOffsets_cb1(self, c, err, buffer) ==
    IF Failed(err) THEN Reject(c, err)
    ELSE Resolve(c, [t |-> "object",
                     x |-> Num(buffer.bytes[1]),
                     y |-> Num(buffer.bytes[2]),
                     z |-> Num(buffer.bytes[3])])

(***************************************************************************)
(* Dispatch: the method a call names, and the callback its pending         *)
(* transaction completes.                                                  *)
(***************************************************************************)
Ops == {"writeByte", "readByte", "init", "getDevId", "setPowerCtl", "getAcceleration",
        "setMeasurementRange", "getMeasurementRange", "setDataRate",
        "getDataRate", "setOffsetX", "setOffsetY", "setOffsetZ", "getOffsets"}

Setters == {"setMeasurementRange", "setDataRate",
            "setOffsetX", "setOffsetY", "setOffsetZ"}

\* The operations whose last resolved call is remembered.
Tracked == Setters \cup {"init"}

Begin(self, op, arg) ==
    LET c == NewCall(op, arg)
    IN  CASE op = "writeByte" -> writeByte_call(self, c)
          [] op = "readByte" -> readByte_call(self, c)
          [] op = "init" -> init_call(self, c)
          [] op = "getDevId" -> getDevId_call(self, c)
          [] op = "setPowerCtl" -> setPowerCtl_call(self, c)
          [] op = "getAcceleration" -> getAcceleration_call(self, c)
          [] op = "setMeasurementRange" -> setMeasurementRange_call(self, c)
          [] op = "getMeasurementRange" -> getMeasurementRange_call(self, c)
          [] op = "setDataRate" -> setDataRate_call(self, c)
          [] op = "getDataRate" -> getDataRate_call(self, c)
          [] op = "setOffsetX" -> setOffsetX_call(self, c)
          [] op = "setOffsetY" -> setOffsetY_call(self, c)
          [] op = "setOffsetZ" -> setOffsetZ_call(self, c)
          [] op = "getOffsets" -> getOffsets_call(self, c)

OnCallback(self, c, err, data) ==
    CASE c.op = "writeByte" -> writeByte_cb1(self, c, err, data)
      [] c.op = "readByte" -> readByte_cb1(self, c, err, data)
      [] c.op = "init" /\ c.pc = "cb1" -> init_cb1(self, c, err, data)
      [] c.op = "init" /\ c.pc = "cb2" -> init_cb2(self, c, err, data)
      [] c.op = "getDevId" -> getDevId_cb1(self, c, err, data)
      [] c.op = "setPowerCtl" -> setPowerCtl_cb1(self, c, err, data)
      [] c.op = "getAcceleration" /\ c.pc = "cb1" -> getAcceleration_cb1(self, c, err, data)
      [] c.op = "getAcceleration" /\ c.pc = "cb2" -> getAcceleration_cb2(self, c, err, data)
      [] c.op = "setMeasurementRange" /\ c.pc = "cb1" ->
             setMeasurementRange_cb1(self, c, err, data)
      [] c.op = "setMeasurementRange" /\ c.pc = "cb2" ->
             setMeasurementRange_cb2(self, c, err, data)
      [] c.op = "getMeasurementRange" -> getMeasurementRange_cb1(self, c, err, data)
      [] c.op = "setDataRate" -> setDataRate_cb1(self, c, err, data)
      [] c.op = "getDataRate" -> getDataRate_cb1(self, c, err, data)
      [] c.op = "setOffsetX" -> setOffsetX_cb1(self, c, err, data)
      [] c.op = "setOffsetY" -> setOffsetY_cb1(self, c, err, data)
      [] c.op = "setOffsetZ" -> setOffsetZ_cb1(self, c, err, data)
      [] c.op = "getOffsets" -> getOffsets_cb1(self, c, err, data)

\* The reaction a settled promise has queued for call c.
OnJob(self, c) ==
    CASE c.op = "init" /\ c.pc = "then1" -> init_then1(self, c)
      [] c.op = "init" /\ c.pc = "then2" -> init_then2(self, c)

(***************************************************************************)
(* Actions.                                                                *)
(***************************************************************************)
NoValue == [t |-> "none", v |-> 0]

\* A call in which init opens the bus again and keeps the new handle.
Call_reopening(s, op, arg) ==
    /\ calls[s].pc \in {"idle", "resolved", "rejected"}
    /\ budget > 0
    /\ budget' = budget - 1
    /\ calls' = [calls EXCEPT ![s] = Begin(ctrl, op, arg)]
    /\ ctrl' = IF op = "init" THEN [ctrl EXCEPT !.i2cBus = openSync(ctrl.i2cBusNo)]
               ELSE ctrl
    /\ UNCHANGED <<ctorOptions, regs, lastSet>>

\* A call that refuses every operation but init unless the call before it
\* was an init that resolved.
Call_gated(s, op, arg) ==
    /\ calls[s].pc \in {"idle", "resolved", "rejected"}
    /\ budget > 0
    /\ budget' = budget - 1
    /\ calls' = [calls EXCEPT ![s] =
                     IF op = "init" \/ (calls[s].op = "init" /\ calls[s].pc = "resolved")
                     THEN Begin(ctrl, op, arg)
                     ELSE Reject(NewCall(op, arg), TransportError)]
    /\ UNCHANGED <<ctorOptions, ctrl, regs, lastSet>>

\* A client calls method op with argument arg on a free slot: the
\* synchronous part of the method runs.
Call(s, op, arg) ==
    /\ calls[s].pc \in {"idle", "resolved", "rejected"}
    /\ budget > 0
    /\ budget' = budget - 1
    /\ calls' = [calls EXCEPT ![s] = Begin(ctrl, op, arg)]
    /\ UNCHANGED <<ctorOptions, ctrl, regs, lastSet>>

writeByte(s, register, value) == Call(s, "writeByte", Args(register, value))
readByte(s, register) == Call(s, "readByte", register)
init(s) == Call(s, "init", Undefined)
getDevId(s) == Call(s, "getDevId", Undefined)
setPowerCtl(s, value) == Call(s, "setPowerCtl", value)
getAcceleration(s, gForce) == Call(s, "getAcceleration", gForce)
setMeasurementRange(s, range) == Call(s, "setMeasurementRange", range)
getMeasurementRange(s) == Call(s, "getMeasurementRange", Undefined)
setDataRate(s, dataRate) == Call(s, "setDataRate", dataRate)
getDataRate(s) == Call(s, "getDataRate", Undefined)
setOffsetX(s, value) == Call(s, "setOffsetX", value)
setOffsetY(s, value) == Call(s, "setOffsetY", value)
setOffsetZ(s, value) == Call(s, "setOffsetZ", value)
getOffsets(s) == Call(s, "getOffsets", Undefined)

\* The bus completes the pending transaction of slot s and invokes its
\* callback with err: on success the device has performed the transaction,
\* on failure it is untouched.
BusCallback(s, err) ==
    /\ calls[s].pc \in {"cb1", "cb2"}
    /\ LET txn  == calls[s].pend
           data == IF Failed(err) THEN Undefined ELSE DevResponse(regs, txn)
           c2   == OnCallback(ctrl, calls[s], err, data)
       IN  /\ regs' = IF Failed(err) THEN regs ELSE DevApply(regs, txn)
           /\ calls' = [calls EXCEPT ![s] = c2]
           /\ lastSet' = IF c2.pc = "resolved" /\ c2.op \in Tracked
                         THEN [lastSet EXCEPT ![c2.op] = c2.arg]
                         ELSE lastSet
    /\ UNCHANGED <<ctorOptions, ctrl, budget>>

\* The job queue runs the reaction of slot s: the callback that settled the
\* promise has returned, and any other callback or call may have run since.
PromiseJob(s) ==
    /\ calls[s].pc \in {"then1", "then2"}
    /\ LET c2 == OnJob(ctrl, calls[s])
       IN  /\ calls' = [calls EXCEPT ![s] = c2]
           /\ lastSet' = IF c2.pc = "resolved" /\ c2.op \in Tracked
                         THEN [lastSet EXCEPT ![c2.op] = c2.arg]
                         ELSE lastSet
    /\ UNCHANGED <<ctorOptions, ctrl, regs, budget>>

\* A client calls one of the static naming functions: it returns at once,
\* without any bus transaction.
StaticCall(s, op, arg) ==
    /\ calls[s].pc \in {"idle", "returned"}
    /\ budget > 0
    /\ budget' = budget - 1
    /\ calls' = [calls EXCEPT ![s] =
                     [NewCall(op, arg) EXCEPT
                         !.pc = "returned",
                         !.result = IF op = "stringifyMeasurementRange"
                                    THEN stringifyMeasurementRange(arg)
                                    ELSE stringifyDataRate(arg)]]
    /\ UNCHANGED <<ctorOptions, ctrl, regs, lastSet>>

(***************************************************************************)
(* Initial states.  The register file is the device's power-on content     *)
(* except where a model varies it.                                         *)
(***************************************************************************)
PowerOnRegs ==
    [a \in RegAddrs |->
        IF a = ADXL345_REG_DEVID THEN DEVICE_ID
        ELSE IF a = ADXL345_REG_BW_RATE THEN DATARATE_100_HZ
        ELSE 0]

\* The sample [0x10,0x01,0x20,0x02,0x30,0x03] and one with the extreme counts.
SampleBlocks == {<<16, 1, 32, 2, 48, 3>>, <<0, 128, 255, 127, 255, 255>>}

WithSample(r, block) ==
    [a \in RegAddrs |->
        IF a >= ADXL345_REG_DATAX0 THEN block[a - ADXL345_REG_DATAX0 + 1] ELSE r[a]]

OptionSets ==
    {NoOptions,
     [hasBusNo |-> TRUE, busNo |-> 0, hasAddress |-> TRUE,
      address |-> I2C_ADDRESS_ALT_HIGH, hasBus |-> TRUE]}

InitWith(options, regfile, slots, calls_allowed) ==
    /\ ctorOptions = options
    /\ ctrl = Constructor(options)
    /\ regs = regfile
    /\ calls = [s \in slots |-> IdleCall]
    /\ lastSet = [op \in Tracked |-> NoValue]
    /\ budget = calls_allowed

(***************************************************************************)
(* Spec: every method, called one after the other with arguments from      *)
(* small sets, any bus transaction failing or succeeding.                  *)
(***************************************************************************)
RangeArgs == {Num(RANGE_2_G), Num(RANGE_4_G), Num(RANGE_8_G), Num(RANGE_16_G),
              Null, Undefined, Num(65535), Num(4), Num(-1), True}

RateArgs ==
    {Num(r) : r \in 0..15} \cup {Null, Undefined, Num(65535), Num(16), Num(-1), True}

\* Direct calls of the two bus methods: the measure bit, and a data format
\* with bit 3 clear.
DirectWrites == {<<Num(ADXL345_REG_POWER_CTL), Num(8)>>,
                 <<Num(ADXL345_REG_DATA_FORMAT), Num(244)>>}

DirectReads == {Num(ADXL345_REG_POWER_CTL), Num(ADXL345_REG_DATA_FORMAT)}

Init ==
    \E options \in OptionSets, devid \in {DEVICE_ID, 255}, block \in SampleBlocks :
        InitWith(options,
                 WithSample([PowerOnRegs EXCEPT ![ADXL345_REG_DEVID] = devid], block),
                 {1}, MaxCalls)

\* The operations of the driver, their bus callbacks and promise reactions.
NextDriver ==
    \/ \E s \in DOMAIN calls : init(s)
    \/ \E s \in DOMAIN calls : getDevId(s)
    \/ \E s \in DOMAIN calls, v \in {Num(8), Num(0)} : setPowerCtl(s, v)
    \/ \E s \in DOMAIN calls, g \in {True, False, Undefined} : getAcceleration(s, g)
    \/ \E s \in DOMAIN calls, g \in {Num(RANGE_16_G), Null, Num(65535)} :
           setMeasurementRange(s, g)
    \/ \E s \in DOMAIN calls : getMeasurementRange(s)
    \/ \E s \in DOMAIN calls, r \in {Num(DATARATE_3200_HZ), Null, Num(65535)} :
           setDataRate(s, r)
    \/ \E s \in DOMAIN calls : getDataRate(s)
    \/ \E s \in DOMAIN calls, v \in {Num(1), Num(-1)} : setOffsetX(s, v)
    \/ \E s \in DOMAIN calls, v \in {Num(2), Num(-128)} : setOffsetY(s, v)
    \/ \E s \in DOMAIN calls, v \in {Num(3), Num(127)} : setOffsetZ(s, v)
    \/ \E s \in DOMAIN calls : getOffsets(s)
    \/ \E s \in DOMAIN calls, err \in BusErrors : BusCallback(s, err)
    \/ \E s \in DOMAIN calls : PromiseJob(s)

Next ==
    \/ \E s \in DOMAIN calls, w \in DirectWrites : writeByte(s, w[1], w[2])
    \/ \E s \in DOMAIN calls, r \in DirectReads : readByte(s, r)
    \/ NextDriver

Spec == Init /\ [][Next]_vars

\* SpecDriver: the operations of the driver alone, without direct calls of
\* the two byte helpers writeByte and readByte.
SpecDriver == Init /\ [][NextDriver]_vars

\* Every method again, on a default controller, with a transport that
\* invokes the callback of every transaction it was given.
InitLive ==
    \E devid \in {DEVICE_ID, 255} :
        InitWith(NoOptions, [PowerOnRegs EXCEPT ![ADXL345_REG_DEVID] = devid],
                 {1}, MaxCalls)

SpecLive ==
    InitLive /\ [][Next]_vars
             /\ WF_vars(\E s \in {1}, err \in BusErrors : BusCallback(s, err))
             /\ WF_vars(\E s \in {1} : PromiseJob(s))

(***************************************************************************)
(* SpecDevId: init and getDevId against a device reporting any identity    *)
(* byte.                                                                   *)
(***************************************************************************)
InitDevId ==
    \E devid \in Byte :
        InitWith(NoOptions, [PowerOnRegs EXCEPT ![ADXL345_REG_DEVID] = devid],
                 {1}, MaxCalls)

NextDevId ==
    \/ \E s \in DOMAIN calls : init(s)
    \/ \E s \in DOMAIN calls : getDevId(s)
    \/ \E s \in DOMAIN calls, err \in BusErrors : BusCallback(s, err)
    \/ \E s \in DOMAIN calls : PromiseJob(s)

SpecDevId == InitDevId /\ [][NextDevId]_vars

(***************************************************************************)
(* SpecRange: setMeasurementRange and getMeasurementRange against a        *)
(* device whose data-format register starts with any byte.                 *)
(***************************************************************************)
InitRange ==
    \E options \in OptionSets, format \in Byte :
        InitWith(options, [PowerOnRegs EXCEPT ![ADXL345_REG_DATA_FORMAT] = format],
                 {1}, MaxCalls)

NextRange ==
    \/ \E s \in DOMAIN calls, g \in RangeArgs : setMeasurementRange(s, g)
    \/ \E s \in DOMAIN calls : getMeasurementRange(s)
    \/ \E s \in DOMAIN calls, err \in BusErrors : BusCallback(s, err)

SpecRange == InitRange /\ [][NextRange]_vars

(***************************************************************************)
(* SpecRate: setDataRate and getDataRate against a device whose rate       *)
(* register starts with any byte.                                          *)
(***************************************************************************)
InitRate ==
    \E options \in OptionSets, rate \in Byte :
        InitWith(options, [PowerOnRegs EXCEPT ![ADXL345_REG_BW_RATE] = rate],
                 {1}, MaxCalls)

NextRate ==
    \/ \E s \in DOMAIN calls, r \in RateArgs : setDataRate(s, r)
    \/ \E s \in DOMAIN calls : getDataRate(s)
    \/ \E s \in DOMAIN calls, err \in BusErrors : BusCallback(s, err)

SpecRate == InitRate /\ [][NextRate]_vars

(***************************************************************************)
(* SpecOffsets: the offset setters and getOffsets with signed 8-bit        *)
(* arguments.                                                              *)
(***************************************************************************)
OffsetArgs == {Num(-128), Num(-1), Num(0), Num(1), Num(127)}

InitOffsets == InitWith(NoOptions, PowerOnRegs, {1}, MaxOffsetCalls)

NextOffsets ==
    \/ \E s \in DOMAIN calls, v \in OffsetArgs : setOffsetX(s, v)
    \/ \E s \in DOMAIN calls, v \in OffsetArgs : setOffsetY(s, v)
    \/ \E s \in DOMAIN calls, v \in OffsetArgs : setOffsetZ(s, v)
    \/ \E s \in DOMAIN calls : getOffsets(s)
    \/ \E s \in DOMAIN calls, err \in BusErrors : BusCallback(s, err)

SpecOffsets == InitOffsets /\ [][NextOffsets]_vars

(***************************************************************************)
(* SpecAccel: getAcceleration alone, over blocks of output registers       *)
(* built from axis samples (low byte, high byte): the counts 272, 544,     *)
(* 816, the extremes of a signed 16-bit count, and the counts around       *)
(* +-4000 (16 g at 4 mg per count).                                        *)
(***************************************************************************)
AccelBlocks ==
    {x \o y \o z :
        x \in {<<16, 1>>, <<0, 0>>, <<255, 255>>, <<0, 128>>, <<255, 127>>,
               <<160, 15>>, <<161, 15>>, <<96, 240>>, <<95, 240>>,
               <<255, 0>>, <<0, 255>>},
        y \in {<<32, 2>>, <<255, 127>>, <<96, 240>>, <<1, 0>>},
        z \in {<<48, 3>>, <<0, 128>>, <<161, 15>>, <<255, 255>>}}

InitAccel ==
    \E block \in AccelBlocks :
        InitWith(NoOptions, WithSample(PowerOnRegs, block), {1}, MaxSampleCalls)

NextAccel ==
    \/ \E s \in DOMAIN calls, g \in {True, False, Undefined} : getAcceleration(s, g)
    \/ \E s \in DOMAIN calls, err \in BusErrors : BusCallback(s, err)

SpecAccel == InitAccel /\ [][NextAccel]_vars

(***************************************************************************)
(* SpecInt16: the decoding of one axis over every pair of bytes.  The x    *)
(* output registers hold any low and high byte; getAcceleration reads      *)
(* them over a bus that does not fail.                                     *)
(***************************************************************************)
InitInt16 ==
    \E low \in Byte, high \in Byte :
        InitWith(NoOptions, WithSample(PowerOnRegs, <<low, high, 0, 0, 0, 0>>),
                 {1}, MaxDecodeCalls)

NextInt16 ==
    \/ \E s \in DOMAIN calls : getAcceleration(s, True)
    \/ \E s \in DOMAIN calls : BusCallback(s, NoError)

SpecInt16 == InitInt16 /\ [][NextInt16]_vars

(***************************************************************************)
(* SpecCtor: every shape of the options object (each of i2cBusNo,          *)
(* i2cAddress and i2cBus present or absent), followed by operations that   *)
(* use each method of the bus.                                             *)
(***************************************************************************)
CtorOptions ==
    {[hasBusNo   |-> hasBusNo,   busNo   |-> IF hasBusNo THEN busNo ELSE 0,
      hasAddress |-> hasAddress, address |-> IF hasAddress THEN address ELSE 0,
      hasBus     |-> hasBus] :
        hasBusNo \in BOOLEAN, busNo \in {0, 123},
        hasAddress \in BOOLEAN, address \in {I2C_ADDRESS_ALT_HIGH, 456},
        hasBus \in BOOLEAN}

InitCtor ==
    \E options \in CtorOptions : InitWith(options, PowerOnRegs, {1}, MaxCalls)

NextCtor ==
    \/ \E s \in DOMAIN calls : getDevId(s)
    \/ \E s \in DOMAIN calls : setOffsetX(s, Num(1))
    \/ \E s \in DOMAIN calls : getOffsets(s)
    \/ \E s \in DOMAIN calls, err \in BusErrors : BusCallback(s, err)

SpecCtor == InitCtor /\ [][NextCtor]_vars

(***************************************************************************)
(* SpecStringify: the static naming functions applied to valid codes,      *)
(* numbers outside the codes, null, undefined and booleans.                *)
(***************************************************************************)
InitStringify == InitWith(NoOptions, PowerOnRegs, {1}, MaxCalls)

NextStringify ==
    \/ \E s \in DOMAIN calls, range \in RangeArgs \cup RateArgs \cup {False} :
           StaticCall(s, "stringifyMeasurementRange", range)
    \/ \E s \in DOMAIN calls, dataRate \in RangeArgs \cup RateArgs \cup {False} :
           StaticCall(s, "stringifyDataRate", dataRate)

SpecStringify == InitStringify /\ [][NextStringify]_vars

(***************************************************************************)
(* SpecGetters: getDataRate and getMeasurementRange over every byte the    *)
(* rate register and the data format register can hold (the format byte    *)
(* is the rate byte or its complement, so both registers take every        *)
(* value).                                                                 *)
(***************************************************************************)
InitGetters ==
    \E rate \in Byte :
        \E format \in {rate, 255 - rate} :
            InitWith(NoOptions,
                     [PowerOnRegs EXCEPT ![ADXL345_REG_BW_RATE] = rate,
                                         ![ADXL345_REG_DATA_FORMAT] = format],
                     {1}, MaxSampleCalls)

NextGetters ==
    \/ \E s \in DOMAIN calls : getDataRate(s)
    \/ \E s \in DOMAIN calls : getMeasurementRange(s)
    \/ \E s \in DOMAIN calls, err \in BusErrors : BusCallback(s, err)

SpecGetters == InitGetters /\ [][NextGetters]_vars

(***************************************************************************)
(* SpecOverlap: setMeasurementRange calls with valid ranges, and init, on   *)
(* two call slots of one controller, so that the transactions and the      *)
(* promise reactions of two calls interleave in every order; the bus does  *)
(* not fail.                                                               *)
(***************************************************************************)
InitOverlap ==
    \E format \in Byte :
        InitWith(NoOptions, [PowerOnRegs EXCEPT ![ADXL345_REG_DATA_FORMAT] = format],
                 {1, 2}, MaxSampleCalls)

NextOverlap ==
    \/ \E s \in DOMAIN calls, g \in {Num(RANGE_2_G), Num(RANGE_4_G),
                                     Num(RANGE_8_G), Num(RANGE_16_G)} :
           setMeasurementRange(s, g)
    \/ \E s \in DOMAIN calls : init(s)
    \/ \E s \in DOMAIN calls : BusCallback(s, NoError)
    \/ \E s \in DOMAIN calls : PromiseJob(s)

SpecOverlap == InitOverlap /\ [][NextOverlap]_vars

(***************************************************************************)
(* Helpers of the properties.                                              *)
(***************************************************************************)
Writes(trace) == {i \in 1..Len(trace) : trace[i].kind = "writeByte"}

HexDigitValue(d) == (CHOOSE i \in 1..16 : HexDigits[i] = d) - 1

RECURSIVE ParseHex(_)
ParseHex(digits) ==
    IF digits = <<>> THEN 0
    ELSE 16 * ParseHex(SubSeq(digits, 1, Len(digits) - 1))
         + HexDigitValue(digits[Len(digits)])

\* Bit k of a byte.
Bit(b, k) == (b \div Pow2(k)) % 2

(***************************************************************************)
(* C1.  When the identity read succeeds on a matching device (0xE5),       *)
(* init() issues after that read exactly one single-byte write of 0x08 to  *)
(* the power-control register 0x2D, and only then resolves with 0xE5.      *)
(* Stated of every init call that got past the identity check.             *)
(***************************************************************************)
C1_InitWritesMeasureToPowerCtl ==
    \A s \in DOMAIN calls :
        LET c == calls[s]
        IN  (c.op = "init" /\ c.pc \in {"cb2", "then2", "resolved"}) =>
                /\ c.trace = <<ReadByteTxn(ctrl.i2cBus, ctrl.i2cAddress, Num(ADXL345_REG_DEVID)),
                               WriteByteTxn(ctrl.i2cBus, ctrl.i2cAddress, Num(ADXL345_REG_POWER_CTL),
                                            Num(8))>>
                /\ (c.pc = "resolved" => c.result = Num(DEVICE_ID))

(***************************************************************************)
(* C2.  For every identity byte v # 0xE5 read from register 0x00, init()   *)
(* rejects with the error 'Unexpected ADXL345 device ID: 0x<v in hex>'     *)
(* and issues no write transaction at all.                                 *)
(***************************************************************************)
C2_MismatchRejectsWithoutWrite ==
    \A s \in DOMAIN calls :
        LET c == calls[s]
            v == regs[ADXL345_REG_DEVID]
        IN  (c.op = "init" /\ v # 229) =>
                /\ Writes(c.trace) = {}
                /\ c.pc # "resolved"
                /\ (c.pc = "rejected" /\ c.result # TransportError) =>
                       /\ c.result.t = "error"
                       /\ c.result.msg = "Unexpected ADXL345 device ID: 0x"
                       /\ ParseHex(c.result.hex) = v
                       /\ Len(c.result.hex) = (IF v < 16 THEN 1 ELSE 2)
                       /\ c.trace = <<ReadByteTxn(ctrl.i2cBus, ctrl.i2cAddress, Num(0))>>

\* init has rejected a device reporting 0xFF after reading its identity.
C2_Witness ==
    \E s \in DOMAIN calls :
        /\ calls[s].op = "init"
        /\ calls[s].pc = "rejected"
        /\ regs[ADXL345_REG_DEVID] = 255
        /\ calls[s].result.msg = "Unexpected ADXL345 device ID: 0x"
        /\ calls[s].result.hex = <<"f", "f">>

(***************************************************************************)
(* C3.  For every 8-bit value v, setPowerCtl(v) issues exactly one         *)
(* single-byte write whose register is 0x2D and whose value is v,          *)
(* addressed to the configured device address.                             *)
(***************************************************************************)
C3_SetPowerCtlWritesPowerCtl ==
    \A s \in DOMAIN calls :
        LET c == calls[s]
        IN  c.op = "setPowerCtl" =>
                c.trace = <<WriteByteTxn(ctrl.i2cBus, ctrl.i2cAddress, Num(45), c.arg)>>

(***************************************************************************)
(* C4.  For every range argument that is not one of the codes {0,1,2,3}    *)
(* (null, undefined and 0xFFFF included) setMeasurementRange rejects and   *)
(* issues no bus transaction of any kind, so the device registers are      *)
(* unchanged.                                                              *)
(***************************************************************************)
RangeCodes == {Num(0), Num(1), Num(2), Num(3)}

C4_InvalidRangeNoTransaction ==
    /\ [](\A s \in DOMAIN calls :
            (calls[s].op = "setMeasurementRange" /\ calls[s].arg \notin RangeCodes) =>
                /\ calls[s].pc = "rejected"
                /\ calls[s].trace = <<>>
                /\ calls[s].pend = NoTxn)
    /\ [][\A s \in DOMAIN calls :
            (calls'[s].op = "setMeasurementRange" /\ calls'[s].arg \notin RangeCodes) =>
                regs' = regs]_vars

\* setMeasurementRange(null) and setMeasurementRange(0xFFFF) have been
\* called and have rejected.
C4_Witness ==
    \E s \in DOMAIN calls :
        /\ calls[s].op = "setMeasurementRange"
        /\ calls[s].arg \in {Null, Undefined, Num(65535)}
        /\ calls[s].pc = "rejected"
        /\ calls[s].result.t = "string"

(***************************************************************************)
(* C5.  For every data-rate argument that is not one of the codes 0..15    *)
(* (null, undefined and 0xFFFF included) setDataRate rejects and issues    *)
(* no bus transaction, so the rate register is unchanged.                  *)
(***************************************************************************)
RateCodes == {Num(r) : r \in 0..15}

C5_InvalidRateNoTransaction ==
    /\ [](\A s \in DOMAIN calls :
            (calls[s].op = "setDataRate" /\ calls[s].arg \notin RateCodes) =>
                /\ calls[s].pc = "rejected"
                /\ calls[s].trace = <<>>
                /\ calls[s].pend = NoTxn)
    /\ [][\A s \in DOMAIN calls :
            (calls'[s].op = "setDataRate" /\ calls'[s].arg \notin RateCodes) =>
                regs'[ADXL345_REG_BW_RATE] = regs[ADXL345_REG_BW_RATE]]_vars

C5_Witness ==
    \E s \in DOMAIN calls :
        /\ calls[s].op = "setDataRate"
        /\ calls[s].arg \in {Null, Undefined, Num(65535)}
        /\ calls[s].pc = "rejected"
        /\ calls[s].result.t = "string"

(***************************************************************************)
(* C6.  For every prior data-format byte b and every valid range g, a      *)
(* successful setMeasurementRange(g) writes exactly (b AND 0xF0) OR 0x08   *)
(* OR g to register 0x31: upper four bits preserved, bit 3 set, bit 2      *)
(* clear, bits 1..0 equal to g.  While the write is pending the register   *)
(* still holds b; once the call has resolved it holds the byte written.    *)
(***************************************************************************)
C6_RangeWritePreservesUpperBits ==
    \A s \in DOMAIN calls :
        LET c == calls[s]
            b == regs[ADXL345_REG_DATA_FORMAT]
        IN  (c.op = "setMeasurementRange" /\ c.arg \in RangeCodes) =>
                /\ (c.pc = "cb2" =>
                       /\ Len(c.trace) = 2
                       /\ c.trace[2] = WriteByteTxn(ctrl.i2cBus, ctrl.i2cAddress, Num(49),
                                                    Num((b \div 16) * 16 + 8 + c.arg.v)))
                /\ (c.pc = "resolved" =>
                       /\ Len(c.trace) = 2
                       /\ c.trace[2].kind = "writeByte"
                       /\ c.trace[2].val = Num(b)
                       /\ Bit(b, 3) = 1
                       /\ Bit(b, 2) = 0
                       /\ b % 4 = c.arg.v)

\* The write of setMeasurementRange(RANGE_4_G) over the byte 0xF7 is
\* pending with value 0xF9.
C6_Witness ==
    \E s \in DOMAIN calls :
        /\ calls[s].op = "setMeasurementRange"
        /\ calls[s].arg = Num(1)
        /\ calls[s].pc = "cb2"
        /\ regs[ADXL345_REG_DATA_FORMAT] = 247
        /\ calls[s].pend.val = Num(249)

(***************************************************************************)
(* C7.  For every valid range g and every prior data-format byte,          *)
(* setMeasurementRange(g) followed, with no other writer in between, by    *)
(* getMeasurementRange() resolves with exactly g, and bit 3 of the         *)
(* register is set.                                                        *)
(***************************************************************************)
C7_RangeRoundTrip ==
    \A s \in DOMAIN calls :
        LET c == calls[s]
        IN  (/\ c.op = "getMeasurementRange"
             /\ c.pc = "resolved"
             /\ lastSet["setMeasurementRange"] # NoValue) =>
                /\ c.result = lastSet["setMeasurementRange"]
                /\ Bit(regs[ADXL345_REG_DATA_FORMAT], 3) = 1

\* getMeasurementRange resolved with RANGE_8_G after setMeasurementRange
\* (RANGE_8_G) over a byte whose upper bits were all set.
C7_Witness ==
    \E s \in DOMAIN calls :
        /\ calls[s].op = "getMeasurementRange"
        /\ calls[s].pc = "resolved"
        /\ lastSet["setMeasurementRange"] = Num(2)
        /\ calls[s].result = Num(2)
        /\ regs[ADXL345_REG_DATA_FORMAT] = 250

(***************************************************************************)
(* C8.  For every valid data-rate code r and every prior value of the      *)
(* rate register, setDataRate(r) followed, with no other writer in         *)
(* between, by getDataRate() resolves with exactly r.                      *)
(***************************************************************************)
C8_RateRoundTrip ==
    \A s \in DOMAIN calls :
        LET c == calls[s]
        IN  (/\ c.op = "getDataRate"
             /\ c.pc = "resolved"
             /\ lastSet["setDataRate"] # NoValue) =>
                c.result = lastSet["setDataRate"]

C8_Witness ==
    \E s \in DOMAIN calls :
        /\ calls[s].op = "getDataRate"
        /\ calls[s].pc = "resolved"
        /\ lastSet["setDataRate"] = Num(15)
        /\ calls[s].result = Num(15)

(***************************************************************************)
(* C9.  For every valid rate r, setDataRate(r) issues exactly one bus      *)
(* transaction, a single-byte write to register 0x2C with no preceding     *)
(* read, and the byte written is in 0..15 (bit 4 and bits 5..7 zero)       *)
(* whatever the register held before.                                      *)
(***************************************************************************)
C9_SetDataRateSingleWrite ==
    \A s \in DOMAIN calls :
        LET c == calls[s]
        IN  (c.op = "setDataRate" /\ c.arg \in RateCodes) =>
                /\ Len(c.trace) = 1
                /\ c.trace[1].kind = "writeByte"
                /\ c.trace[1].addr = ctrl.i2cAddress
                /\ c.trace[1].reg = Num(44)
                /\ IsNum(c.trace[1].val)
                /\ c.trace[1].val.v \in 0..15
                /\ c.trace[1].val.v = c.arg.v
                /\ (c.pc = "resolved" => regs[ADXL345_REG_BW_RATE] = c.arg.v)

\* setDataRate(DATARATE_800_HZ) has resolved and the register holds 0x0D.
C9_Witness ==
    \E s \in DOMAIN calls :
        /\ calls[s].op = "setDataRate"
        /\ calls[s].arg = Num(13)
        /\ calls[s].pc = "resolved"
        /\ regs[ADXL345_REG_BW_RATE] = 13
        /\ budget = MaxCalls - 1

(***************************************************************************)
(* C10.  For every triple of signed 8-bit offsets (x, y, z), after         *)
(* setOffsetX(x), setOffsetY(y) and setOffsetZ(z) have all succeeded       *)
(* against a device whose offset registers each store one byte,            *)
(* getOffsets() resolves with exactly {x: x, y: y, z: z}.                  *)
(***************************************************************************)
C10_OffsetsRoundTrip ==
    \A s \in DOMAIN calls :
        LET c == calls[s]
        IN  (/\ c.op = "getOffsets"
             /\ c.pc = "resolved"
             /\ lastSet["setOffsetX"] # NoValue
             /\ lastSet["setOffsetY"] # NoValue
             /\ lastSet["setOffsetZ"] # NoValue) =>
                /\ c.result.x = lastSet["setOffsetX"]
                /\ c.result.y = lastSet["setOffsetY"]
                /\ c.result.z = lastSet["setOffsetZ"]

(***************************************************************************)
(* getAcceleration: the transactions of one sample.                        *)
(***************************************************************************)

\* C11: every getAcceleration call that resolved issued exactly one bus
\* transaction, a 6-byte block read starting at register 0x32: no write and
\* no other read.
C11_SingleBlockRead ==
    \A s \in DOMAIN calls :
        LET c == calls[s]
        IN  (c.op = "getAcceleration" /\ c.pc = "resolved")
            => c.trace = <<ReadI2cBlockTxn(ctrl.i2cBus, ctrl.i2cAddress, Num(50), 6)>>

\* The signed 16-bit count of an axis whose low byte is in register a.
Count(a) ==
    LET v == regs[a + 1] * 256 + regs[a]
    IN  IF v < 32768 THEN v ELSE v - 65536

\* -1, 0 or 1 as u is less than, equal to or greater than v.
RECURSIVE CmpLimbs(_, _)
CmpLimbs(u, v) ==
    IF Len(u) # Len(v) THEN (IF Len(u) < Len(v) THEN -1 ELSE 1)
    ELSE IF u = <<>> THEN 0
    ELSE IF u[Len(u)] # v[Len(v)] THEN (IF u[Len(u)] < v[Len(v)] THEN -1 ELSE 1)
    ELSE CmpLimbs(SubSeq(u, 1, Len(u) - 1), SubSeq(v, 1, Len(v) - 1))

\* u - v - borrow for u >= v.
RECURSIVE SubLimbs(_, _, _)
SubLimbs(u, v, borrow) ==
    IF u = <<>> THEN <<>>
    ELSE IF v = <<>> THEN SubLimbs(u, <<0>>, borrow)
    ELSE <<(u[1] - v[1] - borrow) % LimbBase>>
         \o SubLimbs(Tail(u), Tail(v), IF u[1] - v[1] - borrow < 0 THEN 1 ELSE 0)

AbsDiff(u, v) ==
    CHOOSE r \in {IF CmpLimbs(a, b) >= 0 THEN Trim(SubLimbs(a, b, 0))
                  ELSE Trim(SubLimbs(b, a, 0)) :
                  a \in {u}, b \in {v}} : TRUE

Abs(n) == IF n < 0 THEN -n ELSE n

\* The magnitude of the double f and the fraction num/den, both multiplied
\* by den and by the power of two that makes them whole.
ScaledDouble(f, den) == ShiftLeft(MulLimbs(f.m, den), IF f.e > 0 THEN f.e ELSE 0)
ScaledFraction(f, num) == ShiftLeft(num, IF f.e < 0 THEN -f.e ELSE 0)

\* |f| <= num/den and |f| < num/den, for naturals num and den.
MagnitudeLe(f, num, den) ==
    CmpLimbs(ScaledDouble(f, NatToLimbs(den)), ScaledFraction(f, NatToLimbs(num))) <= 0
MagnitudeLt(f, num, den) ==
    CmpLimbs(ScaledDouble(f, NatToLimbs(den)), ScaledFraction(f, NatToLimbs(num))) < 0

\* The double f is the exact number sign * num/den up to a relative error
\* of 2^-k, num and den being limb sequences.
CloseTo(f, sign, num, den, k) ==
    /\ f.m # <<>> => f.neg = (sign < 0)
    /\ CmpLimbs(ShiftLeft(AbsDiff(ScaledDouble(f, den), ScaledFraction(f, num)), k),
                ScaledFraction(f, num)) <= 0

\* f is count * 0.004 g up to the rounding of one product of doubles, and
\* count * 0.004 * 9.80665 m/s^2 up to the rounding of two (0.004 is
\* 1/250 and 0.004 * 9.80665 is 196133/5000000).
InG(f, count) == CloseTo(f, count, NatToLimbs(Abs(count)), NatToLimbs(250), 52)
InMs2(f, count) ==
    CloseTo(f, count, MulLimbs(NatToLimbs(196133), NatToLimbs(Abs(count))),
            NatToLimbs(5000000), 51)

\* The double f rounds to milli/1000 at three places.
About(f, milli) ==
    /\ ~f.neg
    /\ ~MagnitudeLt(f, 2 * milli - 1, 2000)
    /\ MagnitudeLt(f, 2 * milli + 1, 2000)

\* The doubles JavaScript prints as 1.088, 2.176, 3.264 and
\* 3.2640000000000002 (the next double above 3.264), and as 10.6696352,
\* 21.3392704 and 32.0089056.
Double_1_088 == Double(FALSE, <<12583, 22544, 26738, 34>>, -50)
Double_2_176 == Double(FALSE, <<12583, 22544, 26738, 34>>, -49)
Double_3_264 == Double(FALSE, <<9961, 4194, 29360, 208>>, -51)
Double_3_2640000000000002 == Double(FALSE, <<4981, 2097, 14680, 104>>, -50)
Double_10_6696352 == Double(FALSE, <<55, 22929, 23401, 170>>, -49)
Double_21_3392704 == Double(FALSE, <<55, 22929, 23401, 170>>, -48)
Double_32_0089056 == Double(FALSE, <<24617, 9004, 1167, 128>>, -47)

IsSampleBlock ==
    /\ regs[50] = 16 /\ regs[51] = 1
    /\ regs[52] = 32 /\ regs[53] = 2
    /\ regs[54] = 48 /\ regs[55] = 3

Sampled(c) == c.op = "getAcceleration" /\ c.pc = "resolved"

\* C12 as stated: every sample is 0.004 times the signed counts in g and
\* that times 9.80665 in m/s^2, and the block 10 01 20 02 30 03 gives
\* 1.088, 2.176, 3.264 g and about 10.676, 21.352, 32.028 m/s^2.
C12_SampleValuesAsStated ==
    \A s \in DOMAIN calls :
        LET c == calls[s]
        IN  (Sampled(c) /\ IsSampleBlock)
            => IF c.result.units = "g"
               THEN /\ c.result.x = Double_1_088
                    /\ c.result.y = Double_2_176
                    /\ c.result.z = Double_3_264
               ELSE /\ About(c.result.x, 10676)
                    /\ About(c.result.y, 21352)
                    /\ About(c.result.z, 32028)

\* C12, amended: every sample is, up to the rounding of the products of
\* doubles, 0.004 times the signed counts in g and that times 9.80665 in
\* m/s^2; the block 10 01 20 02 30 03 has the counts 272, 544, 816 and
\* gives the doubles 1.088, 2.176, 3.2640000000000002 g and 10.6696352,
\* 21.3392704, 32.0089056 m/s^2.
C12_SampleValues ==
    \A s \in DOMAIN calls :
        LET c == calls[s]
        IN  Sampled(c)
            => /\ IF c.result.units = "g"
                  THEN /\ InG(c.result.x, Count(50))
                       /\ InG(c.result.y, Count(52))
                       /\ InG(c.result.z, Count(54))
                  ELSE /\ InMs2(c.result.x, Count(50))
                       /\ InMs2(c.result.y, Count(52))
                       /\ InMs2(c.result.z, Count(54))
               /\ IsSampleBlock
                  => /\ <<Count(50), Count(52), Count(54)>> = <<272, 544, 816>>
                     /\ IF c.result.units = "g"
                        THEN /\ c.result.x = Double_1_088
                             /\ c.result.y = Double_2_176
                             /\ c.result.z = Double_3_2640000000000002
                        ELSE /\ c.result.x = Double_10_6696352
                             /\ c.result.y = Double_21_3392704
                             /\ c.result.z = Double_32_0089056

C12_Witness ==
    \E s \in DOMAIN calls :
        /\ Sampled(calls[s])
        /\ IsSampleBlock
        /\ calls[s].result.units # "g"

\* C13: a resolved getAcceleration has exactly the fields x, y, z and units
\* (besides the type tag of the model); units is 'g' when gForce is true and
\* 'm/s²' when it is false or omitted.
C13_ResultShape ==
    \A s \in DOMAIN calls :
        LET c == calls[s]
        IN  Sampled(c)
            => /\ DOMAIN c.result = {"t", "x", "y", "z", "units"}
               /\ c.result.t = "object"
               /\ c.arg = True => c.result.units = "g"
               /\ c.arg \in {False, Undefined} => c.result.units = "m/s²"

C13_Witness ==
    \E s \in DOMAIN calls :
        /\ Sampled(calls[s])
        /\ calls[s].arg = Undefined
        /\ calls[s].result.units = "m/s²"

\* -bound/10^4 <= f <= bound/10^4 for a double f.
Within(f, bound) == MagnitudeLe(f, bound, 10000)

Components(c) == {c.result.x, c.result.y, c.result.z}

\* C14 as stated: every component of a sample lies within [-16, 16] in g
\* and within [-156.9064, 156.9064] in m/s^2.
C14_WithinSixteenG ==
    \A s \in DOMAIN calls :
        LET c == calls[s]
        IN  Sampled(c)
            => \A f \in Components(c) :
                   IF c.result.units = "g" THEN Within(f, 160000)
                   ELSE Within(f, 1569064)

\* C14, amended: the driver scales the signed 16-bit count of an axis
\* without clamping: a component lies within [-16, 16] g, or within
\* [-156.9064, 156.9064] m/s^2, exactly when the count of its axis lies in
\* -4000..4000, and always within [-131.0721, 131.0721] g, or within
\* [-1285.3773, 1285.3773] m/s^2.
C14_WithinRangeIffCount ==
    \A s \in DOMAIN calls :
        LET c == calls[s]
            limit == IF c.result.units = "g" THEN 160000 ELSE 1569064
            wide  == IF c.result.units = "g" THEN 1310721 ELSE 12853773
        IN  Sampled(c)
            => /\ Within(c.result.x, limit) <=> Count(50) \in -4000..4000
               /\ Within(c.result.y, limit) <=> Count(52) \in -4000..4000
               /\ Within(c.result.z, limit) <=> Count(54) \in -4000..4000
               /\ \A f \in Components(c) : Within(f, wide)

C14_Witness ==
    \E s \in DOMAIN calls :
        /\ Sampled(calls[s])
        /\ Count(50) = 4001
        /\ Count(52) = -4000
        /\ ~Within(calls[s].result.x, 160000)

(***************************************************************************)
(* int16: the signed decoding of a byte pair.                              *)
(***************************************************************************)

\* C15: for the bytes high and low of an axis, with v = high * 256 + low,
\* int16(high, low) is v when v < 32768 and v - 65536 otherwise; it lies in
\* -32768..32767; the byte pair can be recovered from it, so distinct pairs
\* decode to distinct values; and (0x01, 0x10) decodes to 272.
C15_Int16Decoding ==
    \A s \in DOMAIN calls :
        LET c    == calls[s]
            high == regs[51]
            low  == regs[50]
            v    == high * 256 + low
            d    == int16(high, low)
        IN  Sampled(c)
            => /\ d = IF v < 32768 THEN v ELSE v - 65536
               /\ d \in -32768..32767
               /\ (d % 65536) \div 256 = high
               /\ (d % 65536) % 256 = low
               /\ (high = 1 /\ low = 16) => d = 272
               /\ InG(c.result.x, d)

C15_Witness ==
    \E s \in DOMAIN calls :
        /\ Sampled(calls[s])
        /\ regs[51] = 128 /\ regs[50] = 0
        /\ calls[s].result.x = Double(TRUE, <<27263, 27000, 25165, 32>>, -43)

(***************************************************************************)
(* Failures.                                                               *)
(***************************************************************************)

\* The call has been rejected with e itself.
RejectedWith(c, e) == c.pc = "rejected" /\ c.result = e

\* The call waits for the reaction of a promise rejected with e.
AwaitsRejection(c, e) ==
    \/ c.pc = "then1" /\ c.tmp = RejectedPromise(e)
    \/ c.pc = "then2" /\ c.tmp.promise = RejectedPromise(e)

\* C16: when the bus reports an error e for a transaction of any operation,
\* the promise of the operation is rejected with e itself, the operation
\* issues no further transaction, and it has not resolved.  The rejection
\* is made by the callback, or for init by the reaction of the promise the
\* callback rejected with e.
C16_TransportErrorPropagates ==
    [][\A s \in DOMAIN calls, e \in BusErrors :
           /\ (Failed(e) /\ BusCallback(s, e))
              => /\ RejectedWith(calls'[s], e) \/ AwaitsRejection(calls'[s], e)
                 /\ calls'[s].trace = calls[s].trace
                 /\ calls'[s].pend = NoTxn
                 /\ regs' = regs
           /\ (Failed(e) /\ AwaitsRejection(calls[s], e) /\ PromiseJob(s))
              => /\ RejectedWith(calls'[s], e)
                 /\ calls'[s].trace = calls[s].trace
                 /\ calls'[s].pend = NoTxn
                 /\ regs' = regs]_vars

C16_Witness ==
    \E s \in DOMAIN calls :
        /\ calls[s].op = "setMeasurementRange"
        /\ calls[s].pc = "rejected"
        /\ calls[s].result = TransportError
        /\ Len(calls[s].trace) = 2

\* C17: whenever setMeasurementRange rejects, also for an invalid
\* argument, the rejection value is an Error object, and for an invalid
\* argument it carries the offending value.
C17_RangeRejectsWithError ==
    \A s \in DOMAIN calls :
        LET c == calls[s]
        IN  (c.op = "setMeasurementRange" /\ c.pc = "rejected")
            => /\ c.result.t = "error"
               /\ ~isValidRange(c.arg) => c.result.of = c.arg

(***************************************************************************)
(* The power control register.                                             *)
(***************************************************************************)
NonPowerOps ==
    {"getAcceleration", "setMeasurementRange", "getMeasurementRange",
     "setDataRate", "getDataRate", "setOffsetX", "setOffsetY", "setOffsetZ",
     "getOffsets", "getDevId"}

\* C18: no call of getAcceleration, setMeasurementRange,
\* getMeasurementRange, setDataRate, getDataRate, setOffsetX, setOffsetY,
\* setOffsetZ, getOffsets or getDevId ever issues a write to register 0x2D,
\* and no step of such a call changes the content of that register.
C18_PowerCtlUntouched ==
    /\ [](\A s \in DOMAIN calls :
              calls[s].op \in NonPowerOps
              => \A i \in 1..Len(calls[s].trace) :
                     ~(/\ calls[s].trace[i].kind = "writeByte"
                       /\ calls[s].trace[i].reg = Num(45)))
    /\ [][\A s \in DOMAIN calls :
              calls'[s].op \in NonPowerOps => regs'[45] = regs[45]]_vars

C18_Witness ==
    \E s \in DOMAIN calls :
        /\ calls[s].op = "setDataRate"
        /\ calls[s].pc = "resolved"
        /\ Cardinality(Writes(calls[s].trace)) = 1
        /\ regs[44] = 15
        /\ regs[45] = 0

(***************************************************************************)
(* The constructor.                                                        *)
(***************************************************************************)

\* C19: a controller built without options has i2cBusNo 1 and i2cAddress
\* 0x53; each of the options i2cBusNo and i2cAddress, when given, is taken
\* exactly as given; and when an i2cBus is given, that object and no opened
\* bus carries every transaction.
C19_ConstructorDefaults ==
    LET o == ctorOptions
    IN  /\ ctrl.i2cBusNo = IF o.hasBusNo THEN o.busNo ELSE 1
        /\ ctrl.i2cAddress = IF o.hasAddress THEN o.address ELSE 83
        /\ o = NoOptions => (ctrl.i2cBusNo = 1 /\ ctrl.i2cAddress = 83)
        /\ ~o.hasBus => ctrl.i2cBus = openSync(ctrl.i2cBusNo)
        /\ o.hasBus
           => /\ ctrl.i2cBus = InjectedBus
              /\ \A s \in DOMAIN calls :
                     \A i \in 1..Len(calls[s].trace) :
                         calls[s].trace[i].bus = InjectedBus

C19_Witness ==
    \E s \in DOMAIN calls :
        /\ ctorOptions.hasBus
        /\ ctorOptions.hasBusNo /\ ctorOptions.busNo = 0
        /\ ~ctorOptions.hasAddress
        /\ calls[s].op = "getOffsets"
        /\ calls[s].pc = "resolved"
        /\ calls[s].trace[1].bus = InjectedBus
        /\ calls[s].trace[1].addr = 83

\* C20: the handle is immutable after construction: whatever operations
\* run, i2cBusNo, i2cAddress and i2cBus keep the values the constructor
\* gave them (the register addresses and the scale factors are constants
\* of the class throughout).
C20_HandleImmutable ==
    /\ [](ctrl = Constructor(ctorOptions))
    /\ [][ctrl' = ctrl]_vars

C20_Witness ==
    \E s \in DOMAIN calls :
        /\ budget = 0
        /\ calls[s].op = "setMeasurementRange"
        /\ calls[s].pc = "resolved"
        /\ ctorOptions.hasBus
        /\ ctrl.i2cBus = InjectedBus
        /\ ctrl.i2cAddress = I2C_ADDRESS_ALT_HIGH

(***************************************************************************)
(* The naming functions.                                                   *)
(***************************************************************************)
RangeNames == <<"RANGE_2_G", "RANGE_4_G", "RANGE_8_G", "RANGE_16_G">>

RateNames ==
    <<"DATARATE_0_10_HZ", "DATARATE_0_20_HZ", "DATARATE_0_39_HZ",
      "DATARATE_0_78_HZ", "DATARATE_1_56_HZ", "DATARATE_3_13_HZ",
      "DATARATE_6_25HZ", "DATARATE_12_5_HZ", "DATARATE_25_HZ",
      "DATARATE_50_HZ", "DATARATE_100_HZ", "DATARATE_200_HZ",
      "DATARATE_400_HZ", "DATARATE_800_HZ", "DATARATE_1600_HZ",
      "DATARATE_3200_HZ">>

\* The name of a code in a table of names, 'UNKNOWN' for any other value.
NameIn(names, x) ==
    IF IsNum(x) /\ x.v \in 0..(Len(names) - 1) THEN names[x.v + 1] ELSE "UNKNOWN"

\* C21: stringifyMeasurementRange and stringifyDataRate return a string for
\* every input; each of the 4 range codes and of the 16 rate codes has its
\* own name, the names are pairwise distinct, and every other input (a
\* number outside the codes, null, undefined, a boolean) gives 'UNKNOWN'.
C21_StringifyTotal ==
    /\ Cardinality({RangeNames[i] : i \in 1..4} \cup {"UNKNOWN"}) = 5
    /\ Cardinality({RateNames[i] : i \in 1..16} \cup {"UNKNOWN"}) = 17
    /\ \A s \in DOMAIN calls :
           LET c == calls[s]
           IN  c.pc = "returned"
               => /\ c.result.t = "string"
                  /\ c.trace = <<>>
                  /\ c.op = "stringifyMeasurementRange"
                     => c.result.msg = NameIn(RangeNames, c.arg)
                  /\ c.op = "stringifyDataRate"
                     => c.result.msg = NameIn(RateNames, c.arg)

C21_Witness ==
    \E s \in DOMAIN calls :
        /\ calls[s].pc = "returned"
        /\ calls[s].op = "stringifyDataRate"
        /\ calls[s].arg = Null
        /\ calls[s].result.msg = "UNKNOWN"

(***************************************************************************)
(* Transactions per call.                                                  *)
(***************************************************************************)

\* C22: every call of writeByte, readByte, init, getDevId, setPowerCtl,
\* getAcceleration, setMeasurementRange, getMeasurementRange, setDataRate,
\* getDataRate, setOffsetX, setOffsetY, setOffsetZ or getOffsets that passes
\* validation issues at least one and at most two bus transactions, whether
\* it succeeds or a transaction of it fails.
C22_OneOrTwoTransactions ==
    \A s \in DOMAIN calls :
        LET c == calls[s]
            passes == /\ c.op = "setMeasurementRange" => isValidRange(c.arg)
                      /\ c.op = "setDataRate" => isValidDataRate(c.arg)
        IN  (c.op \in Ops /\ passes) => Len(c.trace) \in {1, 2}

C22_Witness ==
    \E s \in DOMAIN calls :
        /\ calls[s].op = "init"
        /\ calls[s].pc = "resolved"
        /\ Len(calls[s].trace) = 2

(***************************************************************************)
(* setMeasurementRange and the data format register.                       *)
(***************************************************************************)

\* C23: a setMeasurementRange(g) call changes the data format register in
\* one step only, the successful completion of its write, and then from
\* the value b it held to (b AND 0xF0) OR 0x08 OR g; every other step of
\* the call, a failed read or a failed write included, leaves the register
\* as it was, so a call rejected for a transport error leaves it at its
\* pre-call value; and the call never issues more than its one write, so
\* no compensating write follows a failure.
C23_FailedRangeWriteLeavesRegister ==
    /\ [](\A s \in DOMAIN calls :
              LET c == calls[s]
              IN  c.op = "setMeasurementRange"
                  => /\ Cardinality(Writes(c.trace)) <= 1
                     /\ c.pc = "rejected"
                        => (Writes(c.trace) = {} \/ Writes(c.trace) = {Len(c.trace)}))
    /\ [][\A s \in DOMAIN calls :
              calls'[s].op = "setMeasurementRange"
              => IF calls[s].pc = "cb2" /\ calls'[s].pc = "resolved"
                 THEN regs'[49] = (regs[49] \div 16) * 16 + 8 + calls'[s].arg.v
                 ELSE regs'[49] = regs[49]]_vars

C23_Witness ==
    \E s \in DOMAIN calls :
        /\ calls[s].op = "setMeasurementRange"
        /\ calls[s].pc = "rejected"
        /\ calls[s].result = TransportError
        /\ Writes(calls[s].trace) = {2}
        /\ regs[49] = 255

\* C24: once a setMeasurementRange call has succeeded, the full-resolution
\* bit (bit 3) of the data format register is set in every later state,
\* whatever operations of the driver follow, with valid or invalid
\* arguments, succeeding or failing.
C24_FullResolutionStaysSet ==
    lastSet["setMeasurementRange"] # NoValue => Bit(regs[49], 3) = 1

C24_Witness ==
    \E s \in DOMAIN calls :
        /\ lastSet["setMeasurementRange"] # NoValue
        /\ calls[s].op = "setOffsetX"
        /\ calls[s].pc = "resolved"
        /\ budget = 0
        /\ Bit(regs[49], 3) = 1

(***************************************************************************)
(* The offset setters.                                                     *)
(***************************************************************************)
OffsetRegOf(op) ==
    CASE op = "setOffsetX" -> 30
      [] op = "setOffsetY" -> 31
      [] op = "setOffsetZ" -> 32

\* C25: setOffsetX(v), setOffsetY(v) and setOffsetZ(v) issue exactly one
\* transaction each, a single-byte write of v, unvalidated, to 0x1E, 0x1F
\* and 0x20 respectively, and no step of such a call changes any register
\* other than the call's own.
C25_OffsetSetterWritesOwnRegister ==
    /\ [](\A s \in DOMAIN calls :
              LET c == calls[s]
              IN  c.op \in {"setOffsetX", "setOffsetY", "setOffsetZ"}
                  => c.trace = <<WriteByteTxn(ctrl.i2cBus, ctrl.i2cAddress,
                                              Num(OffsetRegOf(c.op)), c.arg)>>)
    /\ [][\A s \in DOMAIN calls :
              calls'[s].op \in {"setOffsetX", "setOffsetY", "setOffsetZ"}
              => \A a \in DOMAIN regs :
                     a # OffsetRegOf(calls'[s].op) => regs'[a] = regs[a]]_vars

C25_Witness ==
    \E s \in DOMAIN calls :
        /\ calls[s].op = "setOffsetY"
        /\ calls[s].pc = "resolved"
        /\ calls[s].arg = Num(-128)
        /\ regs[30] = 1
        /\ regs[31] = 128
        /\ regs[32] = 127

(***************************************************************************)
(* Addressing.                                                             *)
(***************************************************************************)

\* C26: every bus transaction of every operation, a single-byte read, a
\* single-byte write or a block read, pending or completed, is addressed to
\* the i2cAddress of the controller and issued on the i2cBus of the
\* controller.
C26_TransactionsUseConfiguredAddress ==
    \A s \in DOMAIN calls :
        LET c == calls[s]
        IN  /\ \A i \in 1..Len(c.trace) :
                   /\ c.trace[i].addr = ctrl.i2cAddress
                   /\ c.trace[i].bus = ctrl.i2cBus
                   /\ c.trace[i].kind \in {"readByte", "writeByte", "readI2cBlock"}
            /\ c.pend # NoTxn => c.pend = c.trace[Len(c.trace)]

C26_Witness ==
    \E s \in DOMAIN calls :
        /\ ctrl.i2cAddress = I2C_ADDRESS_ALT_HIGH
        /\ calls[s].op = "getAcceleration"
        /\ calls[s].pc = "resolved"
        /\ calls[s].trace[1].kind = "writeByte"
        /\ calls[s].trace[2].kind = "readI2cBlock"
        /\ calls[s].trace[2].addr = I2C_ADDRESS_ALT_HIGH

(***************************************************************************)
(* The getters of the configuration.                                       *)
(***************************************************************************)

\* C27: for every byte b in the rate register, a resolved getDataRate has
\* issued exactly one read of 0x2C and no write and resolves with
\* b AND 0x0F, one of the 16 rate codes whatever the upper bits are;
\* likewise a resolved getMeasurementRange has issued one read of 0x31 and
\* resolves with the data format byte AND 0x03, one of the 4 range codes.
C27_GettersMaskRegister ==
    \A s \in DOMAIN calls :
        LET c == calls[s]
        IN  c.pc = "resolved"
            => /\ c.op = "getDataRate"
                  => /\ c.trace = <<ReadByteTxn(ctrl.i2cBus, ctrl.i2cAddress, Num(44))>>
                     /\ c.result = Num(regs[44] % 16)
                     /\ c.result \in RateCodes
               /\ c.op = "getMeasurementRange"
                  => /\ c.trace = <<ReadByteTxn(ctrl.i2cBus, ctrl.i2cAddress, Num(49))>>
                     /\ c.result = Num(regs[49] % 4)
                     /\ c.result \in RangeCodes

C27_Witness ==
    \E s \in DOMAIN calls :
        /\ calls[s].op = "getDataRate"
        /\ calls[s].pc = "resolved"
        /\ regs[44] = 255
        /\ calls[s].result = Num(15)

(***************************************************************************)
(* init and the other operations.                                          *)
(***************************************************************************)

\* C28: the controller keeps no initialized state.  In every run, whether
\* init has been called, has resolved or has failed before or not, a call
\* starts as the method does on the handle the constructor built, given
\* only its argument, and each of its bus callbacks and promise reactions
\* continues it given only the call so far and the response of the device:
\* the transactions and the result of an operation do not depend on init.
C28_NoInitializedState ==
    [][\A s \in DOMAIN calls :
           LET self == Constructor(ctorOptions)
           IN  /\ budget' < budget
                  => calls'[s] = Begin(self, calls'[s].op, calls'[s].arg)
               /\ (budget' = budget /\ calls'[s] # calls[s])
                  => IF calls[s].pc \in {"then1", "then2"}
                     THEN calls'[s] = OnJob(self, calls[s])
                     ELSE \E err \in BusErrors :
                              calls'[s] =
                                  OnCallback(self, calls[s], err,
                                             IF Failed(err) THEN Undefined
                                             ELSE DevResponse(regs, calls[s].pend))]_vars

C28_Witness ==
    \E s \in DOMAIN calls :
        /\ lastSet["init"] # NoValue
        /\ calls[s].op = "getAcceleration"
        /\ calls[s].pc = "resolved"
        /\ Len(calls[s].trace) = 2

(***************************************************************************)
(* Overlapping calls.                                                      *)
(***************************************************************************)

\* C29: for setMeasurementRange calls with valid ranges that overlap on one
\* device in any interleaving of their transactions, without transport
\* error: no step changes the upper four bits of the data format register,
\* and once calls have resolved the register has bit 3 set, bit 2 clear
\* and the range bits of the call whose write was performed last.
C29_OverlappingRangeCalls ==
    /\ [](lastSet["setMeasurementRange"] # NoValue
          => /\ Bit(regs[49], 3) = 1
             /\ Bit(regs[49], 2) = 0
             /\ regs[49] % 4 = lastSet["setMeasurementRange"].v)
    /\ [][regs'[49] \div 16 = regs[49] \div 16]_vars

\* Both calls read the register before either wrote it, and both resolved.
C29_Witness ==
    /\ calls[1].pc = "resolved" /\ calls[2].pc = "resolved"
    /\ calls[1].arg = Num(RANGE_2_G) /\ calls[2].arg = Num(RANGE_16_G)
    /\ calls[1].trace[2].val = Num(248)
    /\ calls[2].trace[2].val = Num(251)
    /\ lastSet["setMeasurementRange"] = Num(RANGE_2_G)
    /\ regs[49] = 248

(***************************************************************************)
(* Settlement.                                                             *)
(***************************************************************************)

\* C30: with a transport that invokes the callback of each of its
\* transactions and a job queue that runs each reaction, the promise of every operation settles exactly once: a
\* call waiting for the bus is eventually resolved or rejected; a settled
\* call has no transaction outstanding; and a settled call stays exactly
\* as it settled, with the same outcome, the same value and the same
\* transactions, until the client starts another call.
C30_SettlesExactlyOnce ==
    /\ (calls[1].pc \in {"cb1", "cb2", "then1", "then2"})
           ~> (calls[1].pc \in {"resolved", "rejected"})
    /\ [](calls[1].pc \in {"resolved", "rejected"} => calls[1].pend = NoTxn)
    /\ [](calls[1].op \in Ops
          => calls[1].pc \in {"cb1", "cb2", "then1", "then2", "resolved", "rejected"})
    /\ [][(calls[1].pc \in {"resolved", "rejected"} /\ budget' = budget)
          => calls'[1] = calls[1]]_vars

C30_Witness ==
    /\ calls[1].op = "getAcceleration"
    /\ calls[1].pc = "rejected"
    /\ Len(calls[1].trace) = 1
    /\ calls[1].pend = NoTxn
    /\ budget = 0

====
